---- MODULE Spec2Model ----
(***************************************************************************)
(* A model of pyneurgen's grammatical evolution core:                      *)
(*   genotypes.py              Genotype (codon cursor, grammar mapping,    *)
(*                             fitness computation, mutation)              *)
(*   grammatical_evolution.py  GrammaticalEvolution (the generational      *)
(*                             loop, breeding, stopping criteria)          *)
(* Text is a sequence of one-character strings.  Python exceptions are a   *)
(* non-empty `err` tag in the result record of the operator that raises.   *)
(* Scores are integers; str() of a float score writes the ".0" suffix.     *)
(***************************************************************************)
EXTENDS Integers, Sequences, FiniteSets, TLC

(***************************************************************************)
(* Program constants                                                       *)
(***************************************************************************)
BITS == 8
TIMEOUT_PROG_BUILD == 0
TIMEOUT_PROG_EXECUTE == 1
DEFAULT_FITNESS_FAIL == -1000
DEFAULT_CHILDEREN_PER_CROSSOVER == 2
\* rates are whole percents
DEFAULT_MUTATION_RATE == 2
DEFAULT_MAX_FITNESS_RATE == 50
DEFAULT_MUTATION_TYPE == "s"

(***************************************************************************)
(* Bounds of the model                                                     *)
(***************************************************************************)
MaxHookCalls == 2
MaxElapsed == 1
MaxCalls == 2
MaxGenerations == 1
MaxOps == 3

KEY_S == <<"<", "S", ">">>
KEY_FITNESS == <<"<", "f", "i", "t", "n", "e", "s", "s", ">">>
KEY_MEMBER_NO == <<"<", "m", "e", "m", "b", "e", "r", "_", "n", "o", ">">>
BNF_PROGRAM == <<"p", "r", "o", "g", "r", "a", "m">>
MSG_MAPPING_FAILED ==
    <<"m", "a", "p", "p", "i", "n", "g", " ", "v", "a", "r", "i", "a", "b",
      "l", "e", "s", " ", "i", "n", "t", "o", " ", "p", "r", "o", "g", "r",
      "a", "m", " ", "f", "a", "i", "l", "e", "d">>
STOPLIST ==
    { <<"r", "u", "n", "t", "i", "m", "e", "_", "r", "e", "s", "o", "l", "v", "e">>,
      <<"s", "e", "t", "_", "b", "n", "f", "_", "v", "a", "r", "i", "a", "b", "l", "e">> }
MUT_TYPE_M == "m"
MUT_TYPE_S == "s"
MAX == "max"
MIN == "min"
CENTER == "center"
\* an optional value is None or Some(v); v == opt[1]
None == <<>>
Some(v) == <<v>>

(***************************************************************************)
(* Text helpers (Python str operations used by the source)                 *)
(***************************************************************************)
WHITESPACE == {" ", "\n", "\t"}
DIGITS == <<"0", "1", "2", "3", "4", "5", "6", "7", "8", "9">>

IsDigit(c) == \E d \in 1..10 : DIGITS[d] = c
DigitVal(c) == (CHOOSE d \in 1..10 : DIGITS[d] = c) - 1

\* item.strip() == ''
IsBlank(item) == \A i \in 1..Len(item) : item[i] \in WHITESPACE

RECURSIVE LStrip(_)
LStrip(s) == IF Len(s) > 0 /\ s[1] \in WHITESPACE THEN LStrip(Tail(s)) ELSE s

RECURSIVE RStrip(_)
RStrip(s) ==
    IF Len(s) > 0 /\ s[Len(s)] \in WHITESPACE
    THEN RStrip(SubSeq(s, 1, Len(s) - 1)) ELSE s

Strip(s) == RStrip(LStrip(s))

\* ''.join(list)
RECURSIVE Join(_)
Join(list) == IF list = <<>> THEN <<>> ELSE Head(list) \o Join(Tail(list))

\* item.find(sub) > -1
Contains(item, sub) ==
    \E i \in 1..(Len(item) - Len(sub) + 1) :
        SubSeq(item, i, i + Len(sub) - 1) = sub

RemoveAt(list, i) == SubSeq(list, 1, i - 1) \o SubSeq(list, i + 1, Len(list))

\* item.find(sub) + 1: the place of the first sub in item, 0 when there is none
Find(item, sub) ==
    IF Contains(item, sub)
    THEN CHOOSE i \in 1..(Len(item) - Len(sub) + 1) :
            /\ SubSeq(item, i, i + Len(sub) - 1) = sub
            /\ \A j \in 1..(i - 1) : SubSeq(item, j, j + Len(sub) - 1) # sub
    ELSE 0

\* text.split(sep), sep not empty
RECURSIVE SplitAt(_, _, _)
SplitAt(text, sep, i) ==
    IF i = 0 THEN <<text>>
    ELSE <<SubSeq(text, 1, i - 1)>>
         \o SplitAt(SubSeq(text, i + Len(sep), Len(text)), sep,
                    Find(SubSeq(text, i + Len(sep), Len(text)), sep))

Split(text, sep) == SplitAt(text, sep, Find(text, sep))

\* sep.join(list)
RECURSIVE JoinWith(_, _)
JoinWith(list, sep) ==
    IF list = <<>> THEN <<>>
    ELSE IF Len(list) = 1 THEN list[1]
    ELSE list[1] \o sep \o JoinWith(Tail(list), sep)

\* text.startswith(prefix)
StartsWith(text, prefix) ==
    Len(text) >= Len(prefix) /\ SubSeq(text, 1, Len(prefix)) = prefix

\* str(int)
RECURSIVE NatStr(_)
NatStr(n) ==
    IF n < 10 THEN <<DIGITS[n + 1]>>
    ELSE NatStr(n \div 10) \o <<DIGITS[(n % 10) + 1]>>

StrInt(n) == IF n < 0 THEN <<"-">> \o NatStr(0 - n) ELSE NatStr(n)

\* str(float) of an integral float
StrFloat(n) == StrInt(n) \o <<".", "0">>

RECURSIVE DigitsVal(_, _)
DigitsVal(s, acc) ==
    IF s = <<>> THEN acc ELSE DigitsVal(Tail(s), acc * 10 + DigitVal(Head(s)))

\* index of the first "." of s, else Len(s) + 1
RECURSIVE DotAt(_, _)
DotAt(s, i) == IF i > Len(s) \/ s[i] = "." THEN i ELSE DotAt(s, i + 1)

\* digits, then optionally "." and zeros: neg tells the sign that was cut off
ParseDigits(body, dot, neg) ==
    IF /\ dot > 1
       /\ \A i \in 1..(dot - 1) : IsDigit(body[i])
       /\ \A i \in (dot + 1)..Len(body) : body[i] = "0"
    THEN [err |-> "", n |-> IF neg THEN 0 - DigitsVal(SubSeq(body, 1, dot - 1), 0)
                            ELSE DigitsVal(SubSeq(body, 1, dot - 1), 0)]
    ELSE [err |-> "ValueError", n |-> 0]

ParseSigned(s) ==
    IF Len(s) > 0 /\ s[1] \in {"-", "+"}
    THEN ParseDigits(Tail(s), DotAt(Tail(s), 1), s[1] = "-")
    ELSE ParseDigits(s, DotAt(s, 1), FALSE)

\* float(text) for integral literals: optional blanks, optional sign, digits,
\* optional "." followed by zeros.  Anything else raises ValueError.
ParseFloat(text) == ParseSigned(Strip(text))

(***************************************************************************)
(* utilities.py                                                            *)
(***************************************************************************)
RECURSIVE Bits(_)
Bits(val) == IF val = 0 THEN <<>> ELSE Bits(val \div 2) \o <<DIGITS[(val % 2) + 1]>>

RECURSIVE ZFill(_, _)
ZFill(s, width) == IF Len(s) >= width THEN s ELSE ZFill(<<"0">> \o s, width)

\* base10tobase2(value, zfill) for value >= 0
base10tobase2(value, zfill) ==
    LET new_value_str == IF value = 0 THEN <<"0">> ELSE Bits(value)
    IN  IF zfill > 0 /\ Len(new_value_str) > zfill
        THEN [err |-> "ValueError", s |-> <<>>]
        ELSE [err |-> "", s |-> ZFill(new_value_str, zfill)]

RECURSIVE base2tobase10(_)
base2tobase10(val) ==
    IF val = <<>> THEN 0
    ELSE 2 * base2tobase10(SubSeq(val, 1, Len(val) - 1)) + DigitVal(val[Len(val)])

(***************************************************************************)
(* genotypes.py: Genotype                                                  *)
(* A genotype is a record; an operation returns the changed record in .g   *)
(* and the exception it raised, if any, in .err.                           *)
(***************************************************************************)
BnfList(items) == [list |-> TRUE, items |-> items]
BnfStr(text) == [list |-> FALSE, items |-> <<text>>]

Min2(a, b) == IF a < b THEN a ELSE b

\* s[i:j] with 0 <= i <= j
PySlice(s, i, j) == SubSeq(s, Min2(i, Len(s)) + 1, Min2(j, Len(s)))

set_binary_gene(g, binary_gene) ==
    LET length == Len(binary_gene)
        trunc_binary_gene == PySlice(binary_gene, 0, length - (length % BITS))
    IN  [g EXCEPT !.binary_gene = trunc_binary_gene,
                  !.gene_length = Len(trunc_binary_gene) \div BITS]

generate_decimal_gene(g) ==
    IF g.gene_length = 0
    THEN [g |-> g, err |-> "ValueError"]
    ELSE [g |-> [g EXCEPT
                   !.decimal_gene =
                       [k \in 1..g.gene_length |->
                           base2tobase10(PySlice(g.binary_gene, (k - 1) * BITS, k * BITS))],
                   !.position = <<0, 0>>],
          err |-> ""]

Dec2BinJoin(b, rest) ==
    IF b.err # "" THEN b
    ELSE IF rest.err # "" THEN rest
    ELSE [err |-> "", s |-> b.s \o rest.s]

\* _dec2bin_gene
RECURSIVE dec2bin_gene(_)
dec2bin_gene(dec_gene) ==
    IF dec_gene = <<>> THEN [err |-> "", s |-> <<>>]
    ELSE Dec2BinJoin(base10tobase2(Head(dec_gene), BITS), dec2bin_gene(Tail(dec_gene)))

\* _get_codon that never takes the position back to 0
get_codon_never_wraps(g) ==
    LET position    == g.position[1]
        sequence_no == g.position[2]
        length      == Len(g.decimal_gene)
    IN  IF ~g.wrap /\ sequence_no = g.max_gene_length
        THEN [g |-> g, codon |-> 0, err |-> "ValueError"]
        ELSE IF position >= length
        THEN [g |-> g, codon |-> 0, err |-> "IndexError"]
        ELSE [g |-> [g EXCEPT !.position = <<position + 1, sequence_no + 1>>],
              codon |-> g.decimal_gene[position + 1], err |-> ""]

\* _get_codon: .codon is the value returned
get_codon(g) ==
    LET position    == g.position[1]
        sequence_no == g.position[2]
        length      == Len(g.decimal_gene)
    IN  IF ~g.wrap /\ sequence_no = g.max_gene_length
        THEN [g |-> g, codon |-> 0, err |-> "ValueError"]
        ELSE IF position >= length
        THEN [g |-> g, codon |-> 0, err |-> "IndexError"]
        ELSE LET codon == g.decimal_gene[position + 1]
                 grown == IF g.extend_genotype /\ sequence_no = length
                          THEN [g EXCEPT !.decimal_gene = Append(@, codon),
                                         !.gene_length = length + 1]
                          ELSE g
                 position1 == IF position + 1 = length /\ g.wrap THEN 0 ELSE position + 1
             IN  [g |-> [grown EXCEPT !.position = <<position1, sequence_no + 1>>],
                  codon |-> codon, err |-> ""]

\* _reset_gene_position moving the cursor back and keeping the count of draws
_reset_gene_position_keeps_sequence(g) == [g EXCEPT !.position = <<0, @[2]>>]

_reset_gene_position(g) == [g EXCEPT !.position = <<0, 0>>]

UpdateWith(g, b) ==
    IF b.err # "" THEN [g |-> g, err |-> b.err]
    ELSE [g |-> set_binary_gene(g, b.s), err |-> ""]

_update_genotype(g) == UpdateWith(g, dec2bin_gene(g.decimal_gene))

\* _select_choice(codon, selection)
select_choice(codon, selection) ==
    IF ~selection.list THEN [err |-> "ValueError", value |-> <<>>]
    ELSE IF Len(selection.items) = 0 THEN [err |-> "ZeroDivisionError", value |-> <<>>]
    ELSE [err |-> "", value |-> selection.items[(codon % Len(selection.items)) + 1]]

ResolveWith(c, selection) ==
    IF c.err # "" THEN [g |-> c.g, value |-> <<>>, err |-> c.err]
    ELSE [g |-> c.g, value |-> select_choice(c.codon, selection).value,
          err |-> select_choice(c.codon, selection).err]

resolve_variable(g, variable) ==
    IF variable \notin DOMAIN g.local_bnf
    THEN [g |-> g, value |-> <<>>, err |-> "KeyError"]
    ELSE ResolveWith(get_codon(g), g.local_bnf[variable])

\* Python values a generated program hands to the hooks
PyInt(n) == [kind |-> "int", n |-> n, text |-> <<>>, items |-> <<>>]
PyStr(text) == [kind |-> "str", n |-> 0, text |-> text, items |-> <<>>]
PyList(items) == [kind |-> "list", n |-> 0, text |-> <<>>, items |-> items]
PyBool(b) == [kind |-> "bool", n |-> IF b THEN 1 ELSE 0, text |-> <<>>, items |-> <<>>]

\* str(value)
Str(value) == IF value.kind = "int" THEN StrInt(value.n) ELSE value.text

\* self.local_bnf[key] = entry
BnfStore(g, key, entry) ==
    [g EXCEPT !.local_bnf =
        [k \in DOMAIN g.local_bnf \cup {key} |->
            IF k = key THEN entry ELSE g.local_bnf[k]]]

set_bnf_variable(g, variable_name, value) ==
    IF value.kind = "list"
    THEN BnfStore(g, variable_name, BnfList(value.items))
    ELSE BnfStore(g, variable_name, BnfList(<<Str(value)>>))

\* entry[0] of a local_bnf entry: first item of a list, first character of a str
BnfFirst(entry) ==
    IF entry.list
    THEN IF Len(entry.items) = 0 THEN [err |-> "IndexError", value |-> <<>>]
         ELSE [err |-> "", value |-> entry.items[1]]
    ELSE IF Len(entry.items[1]) = 0 THEN [err |-> "IndexError", value |-> <<>>]
         ELSE [err |-> "", value |-> <<entry.items[1][1]>>]

TRUE_TEXT == <<"T", "r", "u", "e">>
FALSE_TEXT == <<"F", "a", "l", "s", "e">>

\* conv_int / float(): the literal, else eval(), which here knows literals only
conv_int(str_value) ==
    LET v == ParseFloat(str_value)
    IN  IF v.err = "" THEN [err |-> "", value |-> PyInt(v.n)]
        ELSE [err |-> "NameError", value |-> PyInt(0)]

_fmt_resolved_vars(value, return_type) ==
    IF return_type = "str" THEN [err |-> "", value |-> PyStr(value)]
    ELSE IF return_type = "int" THEN conv_int(value)
    ELSE IF return_type = "float" THEN conv_int(value)
    ELSE IF return_type = "bool"
    THEN IF Contains(TRUE_TEXT, value) THEN [err |-> "", value |-> PyBool(TRUE)]
         ELSE IF value = FALSE_TEXT THEN [err |-> "", value |-> PyBool(FALSE)]
         ELSE [err |-> "ValueError", value |-> PyBool(FALSE)]
    ELSE [err |-> "ValueError", value |-> PyStr(value)]

(***************************************************************************)
(* _map_variables                                                          *)
(***************************************************************************)
\* one character allowed inside <...> by VARIABLE_FORMAT: [^\>|^\s]
VarChar(c) == c \notin ({">", "|", "^"} \cup WHITESPACE)

RECURSIVE RunEnd(_, _)
RunEnd(text, k) ==
    IF k > Len(text) \/ ~VarChar(text[k]) THEN k ELSE RunEnd(text, k + 1)

\* index of the ">" closing a match of VARIABLE_FORMAT that starts at i, else 0
MatchEnd(text, i) ==
    IF text[i] # "<" THEN 0
    ELSE LET e == RunEnd(text, i + 1)
         IN  IF e > i + 1 /\ e <= Len(text) /\ text[e] = ">" THEN e ELSE 0

\* re.split(VARIABLE_FORMAT, text): text, whole match, inner group, text, ...
\* start: where the pending text begins; i: where the search stands
RECURSIVE ReSplitFrom(_, _, _, _)
ReSplitFrom(text, start, i, acc) ==
    IF i > Len(text) THEN Append(acc, SubSeq(text, start, Len(text)))
    ELSE LET e == MatchEnd(text, i)
             found == e # 0
         IN  ReSplitFrom(text,
                         IF found THEN e + 1 ELSE start,
                         IF found THEN e + 1 ELSE i + 1,
                         IF found
                         THEN acc \o <<SubSeq(text, start, i - 1), SubSeq(text, i, e),
                                       SubSeq(text, i + 1, e - 1)>>
                         ELSE acc)

VARIABLE_FORMAT_split(text) == ReSplitFrom(text, 1, 1, <<>>)

on_stoplist(item) == \E stopitem \in STOPLIST : Contains(item, stopitem)

\* a nonterminal at prg_list[position]: r is what resolve_variable returned
\* (or the item itself when the stop list keeps it), then del(prg_list[position + 1])
ScanVariable(st, r, status) ==
    IF r.err # "" THEN [st EXCEPT !.g = r.g, !.err = r.err]
    ELSE IF st.position + 2 > Len(st.prg_list)
    THEN [st EXCEPT !.g = r.g, !.prg_list[st.position + 1] = r.value,
                    !.err = "IndexError", !.continue_map = @ \/ status]
    ELSE [g |-> r.g,
          prg_list |-> RemoveAt([st.prg_list EXCEPT ![st.position + 1] = r.value],
                                st.position + 2),
          position |-> st.position + 1,
          continue_map |-> st.continue_map \/ status,
          err |-> ""]

ScanItem(st, item, status) ==
    IF IsBlank(item)
    THEN [st EXCEPT !.prg_list = RemoveAt(@, st.position + 1)]
    ELSE IF item[1] = "<" /\ item[Len(item)] = ">"
    THEN IF status THEN ScanVariable(st, resolve_variable(st.g, item), TRUE)
         ELSE ScanVariable(st, [g |-> st.g, value |-> item, err |-> ""], FALSE)
    ELSE [st EXCEPT !.position = @ + 1]

\* one turn of the inner "while position < len(prg_list)" loop; position is 0-based
ScanStep(st, check_stoplist) ==
    ScanItem(st, st.prg_list[st.position + 1],
             ~(/\ check_stoplist
               /\ st.position > 0
               /\ on_stoplist(st.prg_list[st.position])))

RECURSIVE ScanList(_, _)
ScanList(st, check_stoplist) ==
    IF st.err # "" \/ st.position >= Len(st.prg_list) THEN st
    ELSE ScanList(ScanStep(st, check_stoplist), check_stoplist)

\* which timeout one pass compares the elapsed time with
PassTimeout(g, check_stoplist) ==
    IF check_stoplist THEN g.timeouts[TIMEOUT_PROG_EXECUTE + 1]
    ELSE g.timeouts[TIMEOUT_PROG_BUILD + 1]

\* PassEnd with the length check reporting the over-long text without raising
PassEnd_length_not_raised(st, program, program1, timeout, elapsed) ==
    IF st.err # ""
    THEN [g |-> st.g, program |-> program, err |-> st.err, done |-> FALSE,
          checked |-> FALSE, timedout |-> FALSE, toolong |-> FALSE]
    ELSE IF elapsed > timeout
    THEN [g |-> [st.g EXCEPT !.errors = Append(@, "timeout")],
          program |-> program1, err |-> "StandardError", done |-> FALSE,
          checked |-> TRUE, timedout |-> TRUE,
          toolong |-> Len(program1) > st.g.max_program_length]
    ELSE [g |-> st.g, program |-> program1, err |-> "",
          done |-> ~st.continue_map,
          checked |-> TRUE, timedout |-> FALSE,
          toolong |-> Len(program1) > st.g.max_program_length]

\* the end of one pass: st is what the inner loop left, program1 the joined text
PassEnd(st, program, program1, timeout, elapsed) ==
    IF st.err # ""
    THEN [g |-> st.g, program |-> program, err |-> st.err, done |-> FALSE,
          checked |-> FALSE, timedout |-> FALSE, toolong |-> FALSE]
    ELSE IF elapsed > timeout
    THEN [g |-> [st.g EXCEPT !.errors = Append(@, "timeout")],
          program |-> program1, err |-> "StandardError", done |-> FALSE,
          checked |-> TRUE, timedout |-> TRUE,
          toolong |-> Len(program1) > st.g.max_program_length]
    ELSE IF Len(program1) > st.g.max_program_length
    THEN [g |-> [st.g EXCEPT !.errors = Append(@, "toolong")],
          program |-> program1, err |-> "StandardError", done |-> FALSE,
          checked |-> TRUE, timedout |-> FALSE, toolong |-> TRUE]
    ELSE [g |-> st.g, program |-> program1, err |-> "",
          done |-> ~st.continue_map,
          checked |-> TRUE, timedout |-> FALSE, toolong |-> FALSE]

PassJoin(st, program, timeout, elapsed) ==
    PassEnd(st, program, Join(st.prg_list), timeout, elapsed)

\* One pass of the "while incomplete" loop of _map_variables over `program`,
\* `elapsed` being datetime.now() - starttime read at the end of the pass.
\* .done: the pass returned the program; .checked: it reached the timeout check;
\* .timedout, .toolong: what the checks found
map_variables_pass(g, program, check_stoplist, elapsed) ==
    PassJoin(ScanList([g |-> g, prg_list |-> VARIABLE_FORMAT_split(program),
                       position |-> 0, continue_map |-> FALSE, err |-> ""],
                      check_stoplist),
             program, PassTimeout(g, check_stoplist), elapsed)

\* the "while incomplete" loop: passes until one returns the program or raises
RECURSIVE MapLoop(_, _, _)
MapLoop(r, check_stoplist, elapsed) ==
    IF r.err # "" \/ r.done THEN r
    ELSE MapLoop(map_variables_pass(r.g, r.program, check_stoplist, elapsed),
                 check_stoplist, elapsed)

\* _map_variables(program, check_stoplist) called by itself, every pass reading
\* the same elapsed time
_map_variables(g, program, check_stoplist, elapsed) ==
    MapLoop(map_variables_pass([g EXCEPT !.errors = <<>>], program, check_stoplist,
                               elapsed),
            check_stoplist, elapsed)

(***************************************************************************)
(* compute_fitness / _map_gene, cut at the calls of _map_variables and at  *)
(* the hook calls of the executing program                                 *)
(***************************************************************************)
\* self.local_bnf['<S>'][0], read inside the try block of _map_gene
MapGeneStart(g) ==
    IF KEY_S \notin DOMAIN g.local_bnf
    THEN [g |-> g, start |-> <<>>, err |-> "KeyError"]
    ELSE [g |-> [g EXCEPT !.errors = IF BnfFirst(g.local_bnf[KEY_S]).err = ""
                                     THEN <<>> ELSE @],
          start |-> BnfFirst(g.local_bnf[KEY_S]).value,
          err |-> BnfFirst(g.local_bnf[KEY_S]).err]

\* compute_fitness up to the call _map_variables(self.local_bnf['<S>'][0], True)
\* .start: the text handed to _map_variables
map_gene_begin(g) ==
    MapGeneStart(
        BnfStore(BnfStore(_reset_gene_position(g), KEY_FITNESS,
                          BnfList(<<StrFloat(g.fitness_fail)>>)),
                 BNF_PROGRAM, BnfList(<<MSG_MAPPING_FAILED>>)))

\* _map_gene after _map_variables returned: record the program, _execute_code
\* stores it again (as a str) before exec
execute_code_begin(g, program) ==
    BnfStore(BnfStore(g, BNF_PROGRAM, BnfList(<<program>>)), BNF_PROGRAM, BnfStr(program))

\* the "except:" branch of _map_gene reads self.local_bnf['program'][0]
ExceptBranch(g) == BnfFirst(g.local_bnf[BNF_PROGRAM])

\* float(text) stored as self._fitness
SetFitness(g, f) ==
    IF f.err # "" THEN [g |-> g, err |-> f.err]
    ELSE [g |-> [g EXCEPT !.fitness = f.n], err |-> ""]

\* self._fitness = float(self.local_bnf['<fitness>'][0])
FitnessFromBnf(g) ==
    IF BnfFirst(g.local_bnf[KEY_FITNESS]).err # ""
    THEN [g |-> g, err |-> BnfFirst(g.local_bnf[KEY_FITNESS]).err]
    ELSE SetFitness(g, ParseFloat(BnfFirst(g.local_bnf[KEY_FITNESS]).value))

\* compute_fitness after _map_gene: if self._extend_genotype: self._update_genotype()
AfterMapGene(f) ==
    IF f.err # "" THEN f
    ELSE IF f.g.extend_genotype THEN _update_genotype(f.g)
    ELSE f

\* The rest of _map_gene and of compute_fitness once the try block is left,
\* `failed` telling whether it was left by an exception.
compute_fitness_end(g, failed) ==
    IF failed /\ ExceptBranch(g).err # ""
    THEN [g |-> g, err |-> ExceptBranch(g).err]
    ELSE AfterMapGene(FitnessFromBnf(g))

(***************************************************************************)
(* grammatical_evolution.py: the configuration of an engine                *)
(* An engine is the record of what its setters write; `timeouts` is the    *)
(* name of the list object self._timeouts refers to, the lists themselves  *)
(* being kept apart (lists[name]) so that two references to one list see   *)
(* each other's writes.                                                    *)
(***************************************************************************)
\* a float argument, in whole percents
PyFloat(n) == [kind |-> "float", n |-> n, text |-> <<>>, items |-> <<>>]

DEFAULT_CROSSOVER_RATE == 20
\* what the module-level list holds when the module is imported
DEFAULT_TIMEOUTS == <<20, 3600>>
\* the name of that list object
TIMEOUTS_LIST == "DEFAULT_TIMEOUTS"

\* GrammaticalEvolution.__init__: self._timeouts = DEFAULT_TIMEOUTS binds the
\* module's list
GrammaticalEvolution ==
    [crossover_rate |-> DEFAULT_CROSSOVER_RATE,
     children_per_crossover |-> DEFAULT_CHILDEREN_PER_CROSSOVER,
     mutation_rate |-> DEFAULT_MUTATION_RATE,
     max_fitness_rate |-> DEFAULT_MAX_FITNESS_RATE,
     start_gene_length |-> None,
     max_gene_length |-> None,
     fitness_list |-> [fitness_type |-> CENTER, target_value |-> Some(0),
                       rows |-> <<>>],
     timeouts |-> TIMEOUTS_LIST,
     population_size |-> 0]

\* get_timeouts(): the list self._timeouts names, as it is now
get_timeouts(h, k) == h.lists[h.engines[k].timeouts]

\* isinstance(value, int) and value >= 0
ValidTimeout(value) == value.kind = "int" /\ value.n >= 0

\* set_timeouts(preprogram, program) on the list self._timeouts names: item 0
\* is stored before `program` is looked at
set_timeouts(list, preprogram, program) ==
    IF ~ValidTimeout(preprogram) THEN [list |-> list, err |-> "ValueError"]
    ELSE IF ~ValidTimeout(program)
    THEN [list |-> [list EXCEPT ![1] = preprogram.n], err |-> "ValueError"]
    ELSE [list |-> <<preprogram.n, program.n>>, err |-> ""]

\* isinstance(rate, float) and 0.0 <= rate <= 1.0
ValidRate(rate) == rate.kind = "float" /\ 0 <= rate.n /\ rate.n <= 100

set_mutation_rate(e, mutation_rate) ==
    IF ValidRate(mutation_rate)
    THEN [e |-> [e EXCEPT !.mutation_rate = mutation_rate.n], err |-> ""]
    ELSE [e |-> e, err |-> "ValueError"]

set_crossover_rate(e, crossover_rate) ==
    IF ValidRate(crossover_rate)
    THEN [e |-> [e EXCEPT !.crossover_rate = crossover_rate.n], err |-> ""]
    ELSE [e |-> e, err |-> "ValueError"]

set_max_fitness_rate(e, max_fitness_rate) ==
    IF ValidRate(max_fitness_rate)
    THEN [e |-> [e EXCEPT !.max_fitness_rate = max_fitness_rate.n], err |-> ""]
    ELSE [e |-> e, err |-> "ValueError"]

\* children_per_crossover not in [1, 2]
set_children_per_crossover(e, children_per_crossover) ==
    IF \/ children_per_crossover.kind = "int" /\ children_per_crossover.n \in {1, 2}
       \/ children_per_crossover.kind = "float" /\ children_per_crossover.n \in {100, 200}
    THEN [e |-> [e EXCEPT !.children_per_crossover =
                    IF children_per_crossover.kind = "int"
                    THEN children_per_crossover.n
                    ELSE children_per_crossover.n \div 100],
          err |-> ""]
    ELSE [e |-> e, err |-> "ValueError"]

\* long(value) of an int, of a float that is not negative, of a text that is
\* no number
PyLong(value) ==
    IF value.kind = "int" THEN [err |-> "", n |-> value.n]
    ELSE IF value.kind = "float" THEN [err |-> "", n |-> value.n \div 100]
    ELSE [err |-> "ValueError", n |-> 0]

\* the checks of set_genotype_length on the two lengths long() gave
GenotypeLength(e, start, max) ==
    IF start.err # "" \/ max.err # "" \/ start.n < 0 \/ max.n < 0 \/ start.n > max.n
    THEN [e |-> e, err |-> "ValueError"]
    ELSE [e |-> [e EXCEPT !.start_gene_length = Some(start.n),
                          !.max_gene_length = Some(max.n)],
          err |-> ""]

\* set_genotype_length(start_gene_length, max_gene_length=None)
set_genotype_length(e, start_gene_length, max_gene_length) ==
    GenotypeLength(e, PyLong(start_gene_length),
                   PyLong(IF max_gene_length = None THEN start_gene_length
                          ELSE max_gene_length[1]))

(***************************************************************************)
(* State                                                                   *)
(***************************************************************************)
VARIABLES
    population,         \* GrammaticalEvolution.population: sequence of genotypes
    fitness_list,       \* [fitness_type, target_value, rows]; a row is <<score, member_no>>
    history,            \* _history: sequence of fitness_list snapshots
    generation,         \* _generation
    stopping_criteria,  \* [max_generations, fitness_landscape]
    breeding,           \* the breeding parameters of the engine
    maintain_history,   \* _maintain_history
    pc,                 \* where run() stands
    cur,                \* 1-based index of the member _compute_fitness is at
    ev,                 \* the compute_fitness call in progress
    heap,               \* the engines of the process and the lists they name
    result,             \* what run() returned
    obs                 \* observations for the properties (history variables)

vars == <<population, fitness_list, history, generation, stopping_criteria,
          breeding, maintain_history, pc, cur, ev, heap, result, obs>>

config_vars == <<stopping_criteria, breeding, maintain_history, heap>>

engine_vars == <<fitness_list, history, generation, stopping_criteria, breeding,
                 maintain_history, heap, pc, cur, result>>

G == population[cur]

\* the process after `import` and one GrammaticalEvolution()
Heap0 == [lists |-> [name \in {TIMEOUTS_LIST} |-> DEFAULT_TIMEOUTS],
          engines |-> << GrammaticalEvolution >>]

\* gpc: idle, map (inside _map_variables), exec (inside the generated program),
\* returned, raised; program: the text _map_variables works on; code: the text
\* handed to exec; elapsed: the last reading of now - starttime; hooks: hook calls
Idle == [gpc |-> "idle", check_stoplist |-> TRUE, program |-> <<>>, code |-> <<>>,
         return_type |-> "", elapsed |-> 0, hooks |-> 0]

\* what was seen of the last pass of _map_variables
NoPass == [phase |-> "none", elapsed |-> 0, checked |-> FALSE, timedout |-> FALSE,
           toolong |-> FALSE, executed |-> FALSE, hookfailed |-> FALSE]

\* what is observed of one compute_fitness call; the rest counts steps of run()
NewObs(o) == [o EXCEPT !.pass = NoPass, !.overlong = FALSE, !.hookfailed = FALSE,
                       !.reported = FALSE, !.progfailed = FALSE, !.executed = FALSE]

Obs0 == [pass |-> NoPass, overlong |-> FALSE, hookfailed |-> FALSE, reported |-> FALSE,
         progfailed |-> FALSE, executed |-> FALSE, calls |-> 0,
         evals |-> 0, breeds |-> 0, start |-> 0, stop |-> "none", asked |-> FALSE,
         answer |-> FALSE, best_value |-> 0, mark |-> None, repeated |-> FALSE,
         at_reset |-> <<>>]

\* compute_fitness returned or raised: c is what compute_fitness_end gave
EndCompute(c, e) ==
    [g |-> c.g, ev |-> [e EXCEPT !.gpc = IF c.err = "" THEN "returned" ELSE "raised"],
     pass |-> NoPass]

\* gene.compute_fitness() up to the first mapping pass, b being map_gene_begin's
BeginWith(b, elapsed) ==
    IF b.err # ""
    THEN EndCompute(compute_fitness_end(b.g, TRUE), [Idle EXCEPT !.elapsed = elapsed])
    ELSE [g |-> b.g,
          ev |-> [Idle EXCEPT !.gpc = "map", !.program = b.start, !.elapsed = elapsed],
          pass |-> NoPass]

begin_compute(g, elapsed) == BeginWith(map_gene_begin(g), elapsed)

\* the pass r ended the try block of _map_gene by an exception: raised by
\* _map_variables, or by _fmt_resolved_vars in runtime_resolve
PassFailed(e, r, fmt) ==
    r.err # "" \/ (r.done /\ ~e.check_stoplist /\ fmt.err # "")

\* where compute_fitness stands after a pass that raised nothing
PassNext(e, r, now) ==
    IF ~r.done
    THEN [g |-> r.g, ev |-> [e EXCEPT !.program = r.program, !.elapsed = now]]
    ELSE IF e.check_stoplist
    THEN [g |-> execute_code_begin(r.g, r.program),
          ev |-> [e EXCEPT !.gpc = "exec", !.program = r.program, !.code = r.program,
                           !.elapsed = now]]
    ELSE [g |-> r.g, ev |-> [e EXCEPT !.gpc = "exec", !.elapsed = now]]

PassSeen(e, r, fmt, now) ==
    [phase |-> IF e.check_stoplist THEN "build" ELSE "run",
     elapsed |-> now,
     checked |-> r.checked,
     timedout |-> r.checked /\ r.timedout,
     toolong |-> r.checked /\ r.toolong,
     executed |-> e.check_stoplist /\ r.err = "" /\ r.done,
     hookfailed |-> ~e.check_stoplist /\ PassFailed(e, r, fmt)]

PassOutcome(e, r, fmt, now) ==
    IF PassFailed(e, r, fmt)
    THEN [EndCompute(compute_fitness_end(r.g, TRUE), [e EXCEPT !.elapsed = now])
            EXCEPT !.pass = PassSeen(e, r, fmt, now)]
    ELSE [g |-> PassNext(e, r, now).g, ev |-> PassNext(e, r, now).ev,
          pass |-> PassSeen(e, r, fmt, now)]

PassFormat(e, r, now) ==
    PassOutcome(e, r, _fmt_resolved_vars(r.program, e.return_type), now)

\* one pass of _map_variables and what follows it up to the next pass, the
\* start of exec, the return into the program or the end of compute_fitness
map_pass(g, e, now) ==
    PassFormat(e, map_variables_pass(g, e.program, e.check_stoplist, now), now)

Observe(o, pass) ==
    [o EXCEPT !.pass = pass,
              !.overlong = @ \/ (pass.phase = "build" /\ pass.toolong),
              !.hookfailed = @ \/ pass.hookfailed,
              !.executed = @ \/ pass.executed]

\* slot c becomes g: what g wrote into its grammar shows in every genotype
\* whose local_bnf is the same dict object
Written(pop, c, g) ==
    [i \in 1..Len(pop) |->
        IF i = c THEN g
        ELSE IF pop[i].bnf_id = g.bnf_id
        THEN [pop[i] EXCEPT !.local_bnf = g.local_bnf]
        ELSE pop[i]]

\* the genotype and the call after a step x == [g, ev, pass]
Becomes(x) ==
    /\ population' = Written(population, cur, x.g)
    /\ ev' = x.ev

\* gene.starttime = ...; gene.compute_fitness(), up to the first mapping pass
BeginCompute(g, elapsed) == Becomes(begin_compute(g, elapsed))

BecomesSeen(x) ==
    /\ Becomes(x)
    /\ obs' = Observe(obs, x.pass)

\* One pass of _map_variables, of the build phase (called by _map_gene) or of a
\* runtime_resolve call; `now` is the elapsed time the pass reads.
MapPass(now) ==
    /\ ev.gpc = "map"
    /\ now >= ev.elapsed
    /\ BecomesSeen(map_pass(G, ev, now))
    /\ UNCHANGED engine_vars

\* The generated program is running; without text it does nothing.
Running == ev.gpc = "exec" /\ ev.code # <<>>

\* the program calls self.set_bnf_variable(variable_name, value)
ExecSetBnfVariable(variable_name, value) ==
    /\ Running
    /\ ev.hooks < MaxHookCalls
    /\ population' = Written(population, cur, set_bnf_variable(G, variable_name, value))
    /\ ev' = [ev EXCEPT !.hooks = @ + 1]
    /\ obs' = [obs EXCEPT !.reported = @ \/ (variable_name = KEY_FITNESS)]
    /\ UNCHANGED engine_vars

\* the program calls self.runtime_resolve(item, return_type)
ExecRuntimeResolve(item, return_type) ==
    /\ Running
    /\ ev.hooks < MaxHookCalls
    /\ population' = [population EXCEPT ![cur].errors = <<>>]
    /\ ev' = [ev EXCEPT !.gpc = "map", !.check_stoplist = FALSE, !.program = item,
                        !.return_type = return_type, !.hooks = @ + 1]
    /\ UNCHANGED <<engine_vars, obs>>

\* the program raises
ExecRaise ==
    /\ Running
    /\ Becomes(EndCompute(compute_fitness_end(G, TRUE), ev))
    /\ obs' = [obs EXCEPT !.progfailed = TRUE]
    /\ UNCHANGED engine_vars

\* the program runs to its end
ExecFinish ==
    /\ ev.gpc = "exec"
    /\ Becomes(EndCompute(compute_fitness_end(G, FALSE), ev))
    /\ UNCHANGED <<engine_vars, obs>>

(***************************************************************************)
(* Genotype.__init__ and the parameters create_genotypes hands over        *)
(***************************************************************************)
\* Objects are values here; what tells two dict objects apart is their
\* identity, kept for local_bnf in bnf_id.  The engine's own bnf dict:
BNF_ENGINE == 0

\* deepcopy handing back the object it was given
deepcopy_same_object(id, fresh) == id

\* deepcopy(x): a new object, `fresh` being its identity
deepcopy(id, fresh) == fresh

\* deepcopy(genotype): the copy has its own local_bnf
deepcopy_genotype(g, fresh) == [g EXCEPT !.bnf_id = deepcopy(@, fresh)]

\* Genotype(start_gene_length, max_gene_length, member_no), `bits` being what
\* _generate_binary_gene drew
Genotype(bits, max_gene_length, member_no) ==
    generate_decimal_gene(
        [member_no |-> member_no,
         local_bnf |-> << >>,
         bnf_id |-> member_no + 1,
         max_program_length |-> 0,
         fitness |-> 0,
         fitness_fail |-> 0,
         wrap |-> TRUE,
         extend_genotype |-> TRUE,
         timeouts |-> <<0, 0>>,
         gene_length |-> Len(bits) \div BITS,
         max_gene_length |-> max_gene_length,
         binary_gene |-> bits,
         decimal_gene |-> <<>>,
         position |-> <<0, 0>>,
         errors |-> <<>>,
         generation |-> 0]).g

\* the body of the loop of create_genotypes; p holds the engine's parameters
create_genotype(bits, member_no, p) ==
    LET gene == Genotype(bits, p.max_gene_length, member_no)
        bnf  == BnfStore([gene EXCEPT !.local_bnf = p.bnf,
                                      !.bnf_id = deepcopy(BNF_ENGINE, member_no + 1)],
                         KEY_MEMBER_NO,
                         BnfList(<<StrInt(member_no)>>))
    IN  [bnf EXCEPT !.max_program_length = p.max_program_length,
                    !.fitness = p.fitness_fail,
                    !.fitness_fail = p.fitness_fail,
                    !.extend_genotype = p.extend_genotype,
                    !.timeouts = p.timeouts,
                    !.wrap = p.wrap]

(***************************************************************************)
(* fitness.py: FitnessList and the selections used here                    *)
(* fitness_list == [fitness_type, target_value, rows], rows[i] being       *)
(* <<score, member_no>> of population slot i (member_no == i - 1)          *)
(***************************************************************************)
Abs(x) == IF x < 0 THEN 0 - x ELSE x
Max2(a, b) == IF a > b THEN a ELSE b
Take(s, n) == SubSeq(s, 1, Min2(n, Len(s)))

\* absolute distance of a score to the target of the list
Distance(fl, score) ==
    IF fl.target_value = None THEN Abs(score) ELSE Abs(score - fl.target_value[1])

\* Better ranking by the raw score under center
Better_raw_score(fl, a, b) ==
    IF fl.fitness_type = MAX THEN a > b ELSE a < b

\* score a is strictly better than score b under the mode of the list
Better(fl, a, b) ==
    IF fl.fitness_type = MAX THEN a > b
    ELSE IF fl.fitness_type = MIN THEN a < b
    ELSE Distance(fl, a) < Distance(fl, b)

Members(fl) == { fl.rows[i][2] : i \in 1..Len(fl.rows) }
ScoreOf(fl, member_no) == fl.rows[member_no + 1][1]

\* the members no other member is better than; best_member() is one of them
\* and best_value() is the score of one of them
BestMembers(fl) ==
    { m \in Members(fl) :
        \A n \in Members(fl) : ~Better(fl, ScoreOf(fl, n), ScoreOf(fl, m)) }

\* the members no other member is worse than; worst_member() is one of them
WorstMembers(fl) ==
    { m \in Members(fl) :
        \A n \in Members(fl) : ~Better(fl, ScoreOf(fl, m), ScoreOf(fl, n)) }

Orders(fl) ==
    { p \in [1..Len(fl.rows) -> Members(fl)] :
        \A i, j \in 1..Len(fl.rows) : i # j => p[i] # p[j] }

\* the members from best to worst, ties in any order
BestFirst(fl) ==
    { p \in Orders(fl) :
        \A i, j \in 1..Len(fl.rows) :
            i < j => ~Better(fl, ScoreOf(fl, p[j]), ScoreOf(fl, p[i])) }

\* the members from worst to best, ties in any order
WorstFirst(fl) ==
    { p \in Orders(fl) :
        \A i, j \in 1..Len(fl.rows) :
            i < j => ~Better(fl, ScoreOf(fl, p[i]), ScoreOf(fl, p[j])) }

\* int(round(rate * n)) for a rate given in percent
RoundRate(rate, n) == (rate * n + 50) \div 100

\* FitnessElites(fitness_list, rate).select(): the top max(1, round(rate * N))
FitnessElites_select(sel, best_first) ==
    Take(best_first, Max2(1, RoundRate(sel.rate, Len(best_first))))

\* ReplacementDeleteWorst(fitness_list, n).select(): the n worst
ReplacementDeleteWorst_select(sel, worst_first) == Take(worst_first, sel.n)

(***************************************************************************)
(* grammatical_evolution.py: breeding                                      *)
(***************************************************************************)
\* the inner loop of _evaluate_fitness over what one selection yields: the
\* break leaves it when count == total
PullSelection(items, total, count) ==
    IF count < total /\ total - count <= Len(items)
    THEN Take(items, total - count)
    ELSE items

RECURSIVE PullSelections(_, _, _, _)
PullSelections(fsels, best_first, total, flist) ==
    IF fsels = <<>> THEN flist
    ELSE PullSelections(Tail(fsels), best_first, total,
             flist \o PullSelection(FitnessElites_select(Head(fsels), best_first),
                                    total, Len(flist)))

\* _evaluate_fitness: deep copies of the selected members
_evaluate_fitness(pop, b, best_first) ==
    [k \in 1..Len(PullSelections(b.fitness_selections, best_first,
                                 RoundRate(b.max_fitness_rate, Len(pop)), <<>>)) |->
        deepcopy_genotype(
            pop[PullSelections(b.fitness_selections, best_first,
                               RoundRate(b.max_fitness_rate, Len(pop)), <<>>)[k] + 1],
            Len(pop) + k)]

\* _crossover_function taking the tails from one bit after the crosspoint
_crossover_function_tail_late(child1_binary, child2_binary, crosspoint) ==
    << PySlice(child1_binary, 0, crosspoint)
           \o PySlice(child2_binary, crosspoint + 1, Len(child2_binary)),
       PySlice(child2_binary, 0, crosspoint)
           \o PySlice(child1_binary, crosspoint + 1, Len(child1_binary)) >>

_crossover_function(child1_binary, child2_binary, crosspoint) ==
    << PySlice(child1_binary, 0, crosspoint)
           \o PySlice(child2_binary, crosspoint, Len(child2_binary)),
       PySlice(child2_binary, 0, crosspoint)
           \o PySlice(child1_binary, crosspoint, Len(child1_binary)) >>

\* child.set_binary_gene(binary); child.generate_decimal_gene()
Regenerate(child, binary) == generate_decimal_gene(set_binary_gene(child, binary))

CrossChildren(child1, child2, binaries) ==
    [children |-> << Regenerate(child1, binaries[1]).g, Regenerate(child2, binaries[2]).g >>,
     err |-> IF Regenerate(child1, binaries[1]).err # ""
             THEN Regenerate(child1, binaries[1]).err
             ELSE Regenerate(child2, binaries[2]).err]

\* randint(2, minlength - 2), the draw telling which end of the range
CrossPoint(minlength, high) == IF high THEN minlength - 2 ELSE 2

CrossAt(child1, child2, minlength, high) ==
    IF minlength - 2 < 2
    THEN [children |-> <<child1, child2>>, err |-> "ValueError"]
    ELSE CrossChildren(child1, child2,
             _crossover_function(child1.binary_gene, child2.binary_gene,
                                 CrossPoint(minlength, high)))

\* _crossover(parent1, parent2); draw == <<randint(0, 1) = 1, high>>; the
\* children are deep copies, of identities fresh + 1 and fresh + 2
_crossover(parent1, parent2, draw, fresh) ==
    IF draw[1]
    THEN CrossAt(deepcopy_genotype(parent1, fresh + 1),
                 deepcopy_genotype(parent2, fresh + 2),
                 Min2(Len(parent1.binary_gene), Len(parent2.binary_gene)), draw[2])
    ELSE CrossAt(deepcopy_genotype(parent2, fresh + 1),
                 deepcopy_genotype(parent1, fresh + 2),
                 Min2(Len(parent1.binary_gene), Len(parent2.binary_gene)), draw[2])

PairChildren(c, children_per_crossover) ==
    [children |-> IF children_per_crossover = 2 THEN c.children ELSE <<c.children[1]>>,
     err |-> c.err]

ChildrenJoin(first, rest) ==
    [children |-> first.children \o rest.children,
     err |-> IF first.err # "" THEN first.err ELSE rest.err]

\* _perform_crossovers from pair i on; draws[i] is the draw of pair i
RECURSIVE CrossPairs(_, _, _, _, _)
CrossPairs(flist, draws, children_per_crossover, i, fresh) ==
    IF 2 * i > Len(flist) THEN [children |-> <<>>, err |-> ""]
    ELSE ChildrenJoin(
             PairChildren(_crossover(flist[2 * i - 1], flist[2 * i], draws[i],
                                     fresh + 2 * (i - 1)),
                          children_per_crossover),
             CrossPairs(flist, draws, children_per_crossover, i + 1, fresh))

\* `fresh`: the identities above it are not in use
_perform_crossovers(flist, draws, children_per_crossover, fresh) ==
    CrossPairs(flist, draws, children_per_crossover, 1, fresh)

\* _mutate(gene, position), position 0-based
_mutate(gene, position) ==
    [gene EXCEPT ![position + 1] = IF @ = "0" THEN "1" ELSE "0"]

RECURSIVE FlipAll(_, _)
FlipAll(gene, flips) ==
    IF flips = {} THEN gene
    ELSE FlipAll(_mutate(gene, CHOOSE q \in flips : TRUE),
                 flips \ {CHOOSE q \in flips : TRUE})

\* _single_mutate: the binary gene is assigned, not passed to set_binary_gene
_single_mutate(g, position) ==
    generate_decimal_gene([g EXCEPT !.binary_gene = _mutate(@, position)])

_multiple_mutate(g, mutation_rate, flips) ==
    IF mutation_rate < 0 \/ mutation_rate > 100
    THEN [g |-> g, err |-> "ValueError"]
    ELSE generate_decimal_gene(set_binary_gene(g, FlipAll(g.binary_gene, flips)))

\* the positions of g at which random.random() < mutation_rate may come true
Flips(g, mutation_rate, flips) ==
    IF mutation_rate <= 0 THEN {}
    ELSE { q \in flips : q < Len(g.binary_gene) }

\* mutate(mutation_rate, mutation_type): flips are the positions drawn; the
\* single mutation takes one of them
mutate(g, mutation_rate, mutation_type, flips) ==
    IF mutation_type = MUT_TYPE_S
    THEN IF Flips(g, mutation_rate, flips) = {} THEN [g |-> g, err |-> ""]
         ELSE _single_mutate(g, CHOOSE q \in Flips(g, mutation_rate, flips) : TRUE)
    ELSE IF mutation_type = MUT_TYPE_M
    THEN _multiple_mutate(g, mutation_rate, Flips(g, mutation_rate, flips))
    ELSE [g |-> g, err |-> "ValueError"]

\* _perform_mutations: flips[k] is what is drawn for mlist[k]
_perform_mutations(mlist, b, flips) ==
    [pool |-> [k \in 1..Len(mlist) |->
                  mutate(mlist[k], b.mutation_rate, b.mutation_type, flips[k]).g],
     err |-> IF \E k \in 1..Len(mlist) :
                   mutate(mlist[k], b.mutation_rate, b.mutation_type, flips[k]).err # ""
             THEN "ValueError" ELSE ""]

\* Replace leaving new_g the member number it came with
Replace_keeps_member_no(pop, new_g, replaced_no, gen) ==
    [pop EXCEPT ![replaced_no + 1] = [new_g EXCEPT !.generation = gen + 1]]

\* the body of the loop of _perform_replacements
Replace(pop, new_g, replaced_no, gen) ==
    [pop EXCEPT ![replaced_no + 1] =
        BnfStore([new_g EXCEPT !.member_no = pop[replaced_no + 1].member_no,
                               !.generation = gen + 1],
                 KEY_MEMBER_NO, BnfList(<<StrInt(pop[replaced_no + 1].member_no)>>))]

\* the loop over what one replacement selection yields
RECURSIVE ReplaceEach(_, _, _, _, _)
ReplaceEach(st, victims, fitness_pool, gen, i) ==
    IF i > Len(victims) \/ st.position >= Len(fitness_pool) THEN st
    ELSE ReplaceEach([pop |-> Replace(st.pop, fitness_pool[st.position + 1],
                                      victims[i], gen),
                      position |-> st.position + 1],
                     victims, fitness_pool, gen, i + 1)

RECURSIVE ReplaceSelections(_, _, _, _, _)
ReplaceSelections(st, rsels, worst_first, fitness_pool, gen) ==
    IF rsels = <<>> THEN st
    ELSE ReplaceSelections(
             ReplaceEach(st, ReplacementDeleteWorst_select(Head(rsels), worst_first),
                         fitness_pool, gen, 1),
             Tail(rsels), worst_first, fitness_pool, gen)

\* _perform_replacements writing the pool over the slots in slot order
_perform_replacements_slot_order(pop, b, worst_first, fitness_pool, gen) ==
    ReplaceSelections([pop |-> pop, position |-> 0], b.replacement_selections,
                      [k \in 1..Len(pop) |-> k - 1], fitness_pool, gen).pop

_perform_replacements(pop, b, worst_first, fitness_pool, gen) ==
    ReplaceSelections([pop |-> pop, position |-> 0], b.replacement_selections,
                      worst_first, fitness_pool, gen).pop

EndCycleReplace(pop, b, worst_first, m, gen) ==
    IF m.err # "" THEN [pop |-> pop, err |-> m.err]
    ELSE [pop |-> _perform_replacements(pop, b, worst_first, m.pool, gen), err |-> ""]

EndCycleMutate(pop, b, worst_first, flist, c, flips, gen) ==
    IF c.err # "" THEN [pop |-> pop, err |-> c.err]
    ELSE EndCycleReplace(pop, b, worst_first,
                         _perform_mutations(flist \o c.children, b, flips), gen)

EndCycleCross(pop, b, worst_first, flist, draws, flips, gen) ==
    EndCycleMutate(pop, b, worst_first, flist,
                   _perform_crossovers(flist, draws, b.children_per_crossover,
                                       Len(pop) + Len(flist)),
                   flips, gen)

\* _perform_endcycle: .pop is the population after it, .err what it raised
_perform_endcycle(pop, b, best_first, worst_first, draws, flips, gen) ==
    EndCycleCross(pop, b, worst_first, _evaluate_fitness(pop, b, best_first),
                  draws, flips, gen)

\* the pool _perform_replacements is handed, or the exception raised before
PoolOf(best_first, draws, flips) ==
    LET flist == _evaluate_fitness(population, breeding, best_first)
        c == _perform_crossovers(flist, draws, breeding.children_per_crossover,
                                 Len(population) + Len(flist))
    IN  IF c.err # "" THEN [pool |-> <<>>, err |-> c.err]
        ELSE _perform_mutations(flist \o c.children, breeding, flips)

\* how many members _evaluate_fitness hands to _perform_crossovers
PoolSize(pop, b, best_first) ==
    Len(PullSelections(b.fitness_selections, best_first,
                       RoundRate(b.max_fitness_rate, Len(pop)), <<>>))

\* how many genotypes _perform_mutations is handed
MutatedSize(n, children_per_crossover) ==
    n + (n \div 2) * (IF children_per_crossover = 2 THEN 2 ELSE 1)

(***************************************************************************)
(* grammatical_evolution.py: set_population_size and set_bnf               *)
(***************************************************************************)
\* the rows set_population_size appends: [0.0, i] for i from len(fitness_list)
RECURSIVE AppendRows(_, _)
AppendRows(rows, size) ==
    IF Len(rows) >= size THEN rows
    ELSE AppendRows(Append(rows, <<0, Len(rows)>>), size)

\* set_population_size(size) on e == [population_size, fitness_list]
set_population_size(e, size) ==
    IF size > 0
    THEN [population_size |-> size,
          fitness_list |-> [e.fitness_list EXCEPT !.rows = AppendRows(@, size)],
          err |-> ""]
    ELSE [population_size |-> e.population_size, fitness_list |-> e.fitness_list,
          err |-> "ValueError"]

STATEMENT_FORMAT == <<"<", "S">>
BNF_DEFINES == <<":", ":", "=">>
BNF_OR == <<"|">>
NEWLINE == <<"\n">>

NotEmpty(value) == value # <<>>

\* [value.rstrip() or value.strip() for value in pieces if value]
RECURSIVE StripEach(_, _)
StripEach(pieces, statement) ==
    IF pieces = <<>> THEN <<>>
    ELSE <<IF statement THEN RStrip(Head(pieces)) ELSE Strip(Head(pieces))>>
         \o StripEach(Tail(pieces), statement)

\* set_bnf.strip_spaces(key, values)
strip_spaces(key, values) ==
    StripEach(SelectSeq(Split(values, BNF_OR), NotEmpty),
              StartsWith(key, STATEMENT_FORMAT))

\* bnf_dict[key] = values; key is the key of the lines to come
BnfPut(st, key, values) ==
    [bnf |-> [k \in DOMAIN st.bnf \cup {key} |-> IF k = key THEN values ELSE st.bnf[k]],
     key |-> Some(key), err |-> ""]

\* a line with '::=' : key, values = item.split('::=')
BnfDefine(st, parts) ==
    IF Len(parts) # 2 THEN [st EXCEPT !.err = "ValueError"]
    ELSE BnfPut(st, Strip(parts[1]), strip_spaces(Strip(parts[1]), parts[2]))

\* a line without '::=' that is not empty: more values of the last key
BnfExtend(st, key, values) ==
    BnfPut(st, key, IF StartsWith(key, STATEMENT_FORMAT)
                    THEN <<JoinWith(values, NEWLINE)>> ELSE values)

\* the body of the loop of set_bnf; st == [bnf, key, err]
BnfItem(st, item) ==
    IF st.err # "" THEN st
    ELSE IF Contains(item, BNF_DEFINES) THEN BnfDefine(st, Split(item, BNF_DEFINES))
    ELSE IF item # <<>>
    THEN IF st.key = None THEN [st EXCEPT !.err = "UnboundLocalError"]
         ELSE BnfExtend(st, st.key[1], st.bnf[st.key[1]] \o strip_spaces(st.key[1], item))
    ELSE st

RECURSIVE BnfItems(_, _)
BnfItems(st, items) ==
    IF items = <<>> THEN st ELSE BnfItems(BnfItem(st, Head(items)), Tail(items))

\* set_bnf(bnf): .bnf is the dictionary it builds, .err what it raised
set_bnf(bnf) ==
    BnfItems([bnf |-> << >>, key |-> None, err |-> ""], Split(bnf, NEWLINE))

(***************************************************************************)
(* grammatical_evolution.py: run() and its steps                           *)
(***************************************************************************)
\* the breeding parameters __init__ leaves
DefaultBreeding ==
    [fitness_selections |-> <<>>,
     replacement_selections |-> <<>>,
     max_fitness_rate |-> DEFAULT_MAX_FITNESS_RATE,
     children_per_crossover |-> DEFAULT_CHILDEREN_PER_CROSSOVER,
     mutation_rate |-> DEFAULT_MUTATION_RATE,
     mutation_type |-> DEFAULT_MUTATION_TYPE]

\* the generation counter is only compared with max_generations, which is at
\* most MaxGenerations: beyond GenCap its value makes no difference
GenCap == MaxGenerations + 1

\* evaluations and breedings are counted in the runs that have max generations set
Count(n, sc) == IF sc.max_generations = None THEN n ELSE n + 1

\* record_fitness writing every score to the first row
record_fitness_first_row(fl, gene) ==
    [fl EXCEPT !.rows[1][1] = gene.fitness]

\* self.fitness_list[gene.member_no][0] = gene.get_fitness()
record_fitness(fl, gene) ==
    [fl EXCEPT !.rows[gene.member_no + 1][1] = gene.fitness]

\* MaxGenReached comparing with < in place of <=
MaxGenReached_strict(sc, gen) ==
    sc.max_generations # None /\ sc.max_generations[1] < gen

\* _continue_processing: the check of max generations
MaxGenReached(sc, gen) ==
    sc.max_generations # None /\ sc.max_generations[1] <= gen

\* _continue_processing: the check of the target value
TargetReached(fl, best_value) ==
    /\ fl.target_value # None
    /\ IF fl.fitness_type = MAX THEN best_value >= fl.target_value[1]
       ELSE IF fl.fitness_type = MIN THEN best_value <= fl.target_value[1]
       ELSE IF fl.fitness_type = CENTER THEN best_value <= fl.target_value[1]
       ELSE FALSE

\* LandscapeStatus taking a true answer for "stop"
LandscapeStatus_negated(sc, answer) ==
    IF sc.fitness_landscape # None THEN ~answer ELSE TRUE

\* _continue_processing: status after the stopping function, `answer` being
\* what the function returned
LandscapeStatus(sc, answer) ==
    IF sc.fitness_landscape # None THEN answer ELSE TRUE

\* _continue_processing: .status is the flag it returns, .why the check that
\* decided, .asked whether the stopping function was called
_continue_processing(sc, gen, fl, best_value, answer) ==
    IF MaxGenReached(sc, gen)
    THEN [status |-> FALSE, why |-> "maxgen", asked |-> FALSE]
    ELSE IF TargetReached(fl, best_value)
    THEN [status |-> FALSE, why |-> "target", asked |-> FALSE]
    ELSE [status |-> LandscapeStatus(sc, answer),
          why |-> IF sc.fitness_landscape # None THEN "landscape" ELSE "none",
          asked |-> sc.fitness_landscape # None]

\* run(starting_generation) up to the first _compute_fitness
Run(starting_generation) ==
    /\ pc = "idle"
    /\ generation' = starting_generation
    /\ pc' = "eval"
    /\ cur' = 1
    /\ obs' = [obs EXCEPT !.start = starting_generation]
    /\ UNCHANGED <<population, fitness_list, history, config_vars, ev, result>>

\* _compute_fitness, one turn of its loop up to the first mapping pass
BeginMember(elapsed) ==
    /\ pc = "eval"
    /\ ev.gpc = "idle"
    /\ BeginCompute([G EXCEPT !.generation = generation], elapsed)
    /\ obs' = NewObs(obs)
    /\ UNCHANGED engine_vars

\* _compute_fitness, the end of one turn of its loop, and its return after the
\* last member
EndMember ==
    /\ pc = "eval"
    /\ ev.gpc = "returned"
    /\ fitness_list' = record_fitness(fitness_list, G)
    /\ ev' = Idle
    /\ IF cur < Len(population)
       THEN /\ cur' = cur + 1
            /\ pc' = "eval"
            /\ obs' = obs
       ELSE /\ cur' = cur
            /\ pc' = "record"
            /\ obs' = [obs EXCEPT !.evals = Count(@, stopping_criteria)]
    /\ UNCHANGED <<population, history, generation, config_vars, result>>

\* an exception of compute_fitness leaves _compute_fitness and run()
Abort ==
    /\ pc = "eval"
    /\ ev.gpc = "raised"
    /\ pc' = "aborted"
    /\ ev' = Idle
    /\ UNCHANGED <<population, fitness_list, history, generation, config_vars,
                   cur, result, obs>>

\* the history holding the live list itself, not copies of it: every entry
\* is the one object, and shows what it holds now
history_append_live(h, fl, keep) ==
    IF keep THEN [k \in 1..(Len(h) + 1) |-> fl] ELSE h

\* if self._maintain_history: self._history.append(deepcopy(self.fitness_list))
history_append(h, fl, keep) ==
    IF keep THEN Append(h, fl) ELSE h

RecordHistory ==
    /\ pc = "record"
    /\ history' = history_append(history, fitness_list, maintain_history)
    /\ pc' = "check"
    /\ UNCHANGED <<population, fitness_list, generation, config_vars, cur, ev,
                   result, obs>>

\* what run() does with the flag c of _continue_processing
Checked(c, best_value, answer, best_member) ==
    /\ pc' = IF c.status THEN "breed" ELSE "done"
    /\ result' = IF c.status THEN result ELSE Some(best_member)
    /\ obs' = [obs EXCEPT !.stop = IF c.status THEN "none" ELSE c.why,
                          !.asked = c.asked, !.answer = answer,
                          !.best_value = best_value]

\* if self._continue_processing(): ... else: break; return best_member()
\* `answer` is what the stopping function returns when it is called
CheckStop(answer) ==
    /\ pc = "check"
    /\ \E v, m \in BestMembers(fitness_list) :
          Checked(_continue_processing(stopping_criteria, generation, fitness_list,
                                       ScoreOf(fitness_list, v), answer),
                  ScoreOf(fitness_list, v), answer, m)
    /\ UNCHANGED <<population, fitness_list, history, generation, config_vars,
                   cur, ev>>

\* what the next generation starts with, the generation stamps aside
Snapshot(pop, fl) == << [i \in 1..Len(pop) |-> [pop[i] EXCEPT !.generation = 0]], fl >>

\* counts the breeding; when max generations is unset, notes what the second
\* generation starts with and whether a later one starts with the same
Noted(o, sc, snapshot) ==
    [o EXCEPT !.breeds = Count(@, sc),
              !.mark = IF sc.max_generations = None /\ @ = None
                       THEN Some(snapshot) ELSE @,
              !.repeated = @ \/ o.mark = Some(snapshot)]

\* Identities are names: each object is renamed to the first slot that holds
\* it, which keeps what is shared shared and what is apart apart.
SlotIds(pop) ==
    [i \in 1..Len(pop) |->
        [pop[i] EXCEPT !.bnf_id =
            IF @ = BNF_ENGINE THEN @
            ELSE CHOOSE j \in 1..i :
                    /\ pop[j].bnf_id = pop[i].bnf_id
                    /\ \A k \in 1..(j - 1) : pop[k].bnf_id # pop[i].bnf_id]]

\* the population after _perform_endcycle, or the exception it raised
Bred(e) ==
    /\ population' = SlotIds(e.pop)
    /\ pc' = IF e.err = "" THEN "eval" ELSE "aborted"
    /\ generation' = IF e.err = "" THEN Min2(generation + 1, GenCap) ELSE generation
    /\ obs' = IF e.err = ""
              THEN Noted(obs, stopping_criteria, Snapshot(SlotIds(e.pop), fitness_list))
              ELSE obs

\* self._perform_endcycle(); self._generation += 1
\* draws: what _crossover draws for each pair; flips: what mutate draws for
\* each genotype of the pool
Breed(best_first, worst_first, draws, flips) ==
    /\ pc = "breed"
    /\ Bred(_perform_endcycle(population, breeding, best_first, worst_first,
                              draws, flips, generation))
    /\ cur' = 1
    /\ UNCHANGED <<fitness_list, history, config_vars, ev, result>>

(***************************************************************************)
(* One genotype driven directly, as test_genotypes.py drives it            *)
(***************************************************************************)
VAR_E == <<"<", "e", ">">>
\* <S> ::= <e>       <e> ::= x | <e><e>
TestBnf ==
    (KEY_S :> BnfList(<<VAR_E>>)) @@
    (VAR_E :> BnfList(<< <<"x">>, VAR_E \o VAR_E >>))

TestGenes == { <<0>>, <<1>>, <<1, 0>>, <<1, 0, 0>> }
TestTimeouts == { <<0, 1>>, <<1, 0>> }
TestProgramLengths == { 4, 7 }
HookNames == { KEY_FITNESS, BNF_PROGRAM }
HookValues == { PyInt(1), PyStr(<<"a">>), PyList(<<>>) }
HookItems == { VAR_E }
ReturnTypes == { "str", "int" }

InitGeno ==
    /\ \E dec \in TestGenes, slack \in 0..1, wrap \in BOOLEAN, extend \in BOOLEAN,
          timeouts \in TestTimeouts, mpl \in TestProgramLengths :
          population = << create_genotype(dec2bin_gene(dec).s, 0,
                            [max_gene_length |-> Len(dec) + slack,
                             bnf |-> TestBnf,
                             max_program_length |-> mpl,
                             fitness_fail |-> DEFAULT_FITNESS_FAIL,
                             extend_genotype |-> extend,
                             timeouts |-> timeouts,
                             wrap |-> wrap]) >>
    /\ fitness_list = [fitness_type |-> CENTER, target_value |-> Some(0),
                       rows |-> << <<0, 0>> >>]
    /\ history = <<>>
    /\ generation = 0
    /\ stopping_criteria = [max_generations |-> None, fitness_landscape |-> None]
    /\ breeding = DefaultBreeding
    /\ maintain_history = TRUE
    /\ pc = "test"
    /\ cur = 1
    /\ ev = Idle
    /\ heap = Heap0
    /\ result = None
    /\ obs = Obs0

\* g.starttime = ...; g.compute_fitness()
TestCall(elapsed) ==
    /\ pc = "test"
    /\ ev.gpc \in {"idle", "returned", "raised"}
    /\ obs.calls < MaxCalls
    /\ BeginCompute(G, elapsed)
    /\ obs' = [NewObs(obs) EXCEPT !.calls = @ + 1]
    /\ UNCHANGED engine_vars

NextGeno ==
    \/ \E elapsed \in 0..MaxElapsed : TestCall(elapsed)
    \/ \E now \in 0..MaxElapsed : MapPass(now)
    \/ \E name \in HookNames, value \in HookValues : ExecSetBnfVariable(name, value)
    \/ \E item \in HookItems, return_type \in ReturnTypes :
          ExecRuntimeResolve(item, return_type)
    \/ ExecRaise
    \/ ExecFinish

SpecGeno == InitGeno /\ [][NextGeno]_vars

(***************************************************************************)
(* The engine: a population of two, run() from its call to its return      *)
(***************************************************************************)
\* the genes _generate_binary_gene drew for member 0 and member 1
EngineGenes == << <<0>>, <<1>> >>
EngineElapsed == { 0 }
EngineHookNames == { KEY_FITNESS }
EngineHookValues == { PyInt(2), PyStr(<<"a">>) }
\* <<fitness_type, target_value>>
EngineFitness == { <<MAX, Some(1)>>, <<MIN, Some(1)>>, <<CENTER, Some(1)>> }
Landscapes == { None, Some("fn") }
\* <<randint(0, 1) = 1, the crosspoint is the high end of its range>>
CrossDraws == { <<TRUE, FALSE>>, <<FALSE, TRUE>> }
MutationDraws == { {}, {7} }

\* FitnessElites over the whole list, ReplacementDeleteWorst(1)
ElitesBreeding ==
    [DefaultBreeding EXCEPT
        !.fitness_selections = << [kind |-> "elites", rate |-> 100] >>,
        !.replacement_selections = << [kind |-> "deleteworst", n |-> 1] >>,
        !.max_fitness_rate = 100]

EngineBreeding == { DefaultBreeding, ElitesBreeding }

EngineParams ==
    [max_gene_length |-> 1,
     bnf |-> TestBnf,
     max_program_length |-> 4,
     fitness_fail |-> DEFAULT_FITNESS_FAIL,
     extend_genotype |-> FALSE,
     timeouts |-> <<1, 1>>,
     wrap |-> TRUE]

\* a run without max generations can go on without end, and so can its
\* history: such a run is taken with set_maintain_history(False)
HistoryBounded(sc, h) == sc.max_generations = None => ~h

\* set_population_size(2); set_bnf(...); create_genotypes() and the setters
Init ==
    /\ population = [i \in 1..Len(EngineGenes) |->
                        create_genotype(dec2bin_gene(EngineGenes[i]).s, i - 1,
                                        EngineParams)]
    /\ \E f \in EngineFitness :
          fitness_list = [fitness_type |-> f[1], target_value |-> f[2],
                          rows |-> [i \in 1..Len(EngineGenes) |-> <<0, i - 1>>]]
    /\ history = <<>>
    /\ generation = 0
    /\ \E mg \in {None} \cup { Some(n) : n \in 0..MaxGenerations }, fn \in Landscapes :
          stopping_criteria = [max_generations |-> mg, fitness_landscape |-> fn]
    /\ breeding \in EngineBreeding
    /\ maintain_history \in { h \in BOOLEAN : HistoryBounded(stopping_criteria, h) }
    /\ pc = "idle"
    /\ cur = 1
    /\ ev = Idle
    /\ heap = Heap0
    /\ result = None
    /\ obs = Obs0

Next ==
    \/ \E starting_generation \in 0..MaxGenerations : Run(starting_generation)
    \/ \E elapsed \in EngineElapsed : BeginMember(elapsed)
    \/ \E now \in EngineElapsed : MapPass(now)
    \/ \E name \in EngineHookNames, value \in EngineHookValues :
          ExecSetBnfVariable(name, value)
    \/ ExecRaise
    \/ ExecFinish
    \/ EndMember
    \/ Abort
    \/ RecordHistory
    \/ \E answer \in BOOLEAN : CheckStop(answer)
    \/ \E best_first \in BestFirst(fitness_list), worst_first \in WorstFirst(fitness_list) :
          \E draws \in [1..(PoolSize(population, breeding, best_first) \div 2) -> CrossDraws],
             flips \in [1..MutatedSize(PoolSize(population, breeding, best_first),
                                       breeding.children_per_crossover) -> MutationDraws] :
             Breed(best_first, worst_first, draws, flips)

Spec == Init /\ [][Next]_vars

(***************************************************************************)
(* Single operations called directly, as the unit tests call them: the     *)
(* gene operations on two genotypes of different lengths, the coercion of  *)
(* runtime values, set_bnf, set_population_size, and the FitnessList.      *)
(* `result` holds Some([op, err, value]) of the last call.                 *)
(***************************************************************************)
UnitModes == { "gene", "codon", "cross", "pool", "breed", "map", "fmt", "bnf", "size",
               "fitl" }

UnitGenes == << <<5>>, <<1, 2>> >>

UnitParams(wrap, extend) ==
    [EngineParams EXCEPT !.max_gene_length = 2, !.wrap = wrap,
                         !.extend_genotype = extend]

\* 8 bits, 16 bits, and the 10 bits of test_set_binary_gene
UnitBinaries ==
    { dec2bin_gene(<<6>>).s, dec2bin_gene(<<3, 4>>).s,
      dec2bin_gene(<<105>>).s \o <<"0", "1">> }

UnitFlips == { {}, {0}, {7, 8} }

UnitValues ==
    { TRUE_TEXT, FALSE_TEXT, <<"T", "r", "u">>, <<"r">>, <<>>,
      <<"t", "r", "u", "e">>, <<"1">> }

UnitReturnTypes == { "bool", "str", "int" }

\* "<a>::=x|y"  "<a>::= x | | y"  "<S>::=p|q"  "<S>::= p"  " z"  "|w "  ""
UnitLines ==
    << <<"<", "a", ">", ":", ":", "=", "x", "|", "y">>,
       <<"<", "a", ">", ":", ":", "=", " ", "x", " ", "|", " ", "|", " ", "y">>,
       <<"<", "S", ">", ":", ":", "=", "p", "|", "q">>,
       <<"<", "S", ">", ":", ":", "=", " ", "p">>,
       <<" ", "z">>,
       <<"|", "w", " ">>,
       <<>> >>

VAR_A == <<"<", "a", ">">>
VAR_B == <<"<", "b", ">">>
\* <a> ::= x | y       <b> ::= <a>+<a>
UnitBnf ==
    (VAR_A :> BnfList(<< <<"x">>, <<"y">> >>)) @@
    (VAR_B :> BnfList(<< VAR_A \o <<"+">> \o VAR_A >>))

UnitMaxProgramLength == 40

\* "<a> <a>", "<a>\n<b>", "runtime_resolve('<a>') <a>",
\* "set_bnf_variable(1, <a>)", " <a>=z", "z"
UnitPrograms ==
    { <<"<", "a", ">", " ", "<", "a", ">">>,
      <<"<", "a", ">", "\n", "<", "b", ">">>,
      <<"r", "u", "n", "t", "i", "m", "e", "_", "r", "e", "s", "o", "l", "v",
         "e", "(", "'", "<", "a", ">", "'", ")", " ", "<", "a", ">">>,
      <<"s", "e", "t", "_", "b", "n", "f", "_", "v", "a", "r", "i", "a", "b",
         "l", "e", "(", "1", ",", " ", "<", "a", ">", ")">>,
      <<" ", "<", "a", ">", "=", "z">>,
      <<"z">> }

\* set_fitness_selections(FitnessElites(fitness_list, rate), ...)
UnitSelections ==
    { <<>>,
      << [kind |-> "elites", rate |-> 50] >>,
      << [kind |-> "elites", rate |-> 100] >>,
      << [kind |-> "elites", rate |-> 50], [kind |-> "elites", rate |-> 100] >>,
      << [kind |-> "elites", rate |-> 100], [kind |-> "elites", rate |-> 50] >> }

UnitMaxFitnessRates == { 50, 100 }

UnitBreeding ==
    { [DefaultBreeding EXCEPT !.fitness_selections = fsels, !.max_fitness_rate = rate] :
        fsels \in UnitSelections, rate \in UnitMaxFitnessRates }

\* two replacement strategies, the second choosing the first one's slot again
TwoReplacements ==
    [ElitesBreeding EXCEPT
        !.replacement_selections = << [kind |-> "deleteworst", n |-> 1],
                                      [kind |-> "deleteworst", n |-> 2] >>]

\* a pool of one for two chosen slots
SmallPool ==
    [DefaultBreeding EXCEPT
        !.fitness_selections = << [kind |-> "elites", rate |-> 50] >>,
        !.replacement_selections = << [kind |-> "deleteworst", n |-> 2] >>,
        !.max_fitness_rate = 50]

UnitReplacing == { ElitesBreeding, TwoReplacements, SmallPool }

UnitScores == { -2, 0, 1, 3 }
UnitTargets == { 0, 1 }

InitUnit ==
    /\ pc \in UnitModes
    /\ \E wrap \in BOOLEAN, extend \in BOOLEAN :
          /\ pc \in {"gene", "codon"} \/ (wrap /\ ~extend)
          /\ population = [i \in 1..Len(UnitGenes) |->
                              create_genotype(dec2bin_gene(UnitGenes[i]).s, i - 1,
                                  IF pc = "map"
                                  THEN [UnitParams(wrap, extend) EXCEPT
                                           !.bnf = UnitBnf,
                                           !.max_program_length = UnitMaxProgramLength]
                                  ELSE UnitParams(wrap, extend))]
    /\ IF pc = "fitl"
       THEN \E type \in {MAX, MIN, CENTER}, target \in UnitTargets,
               scores \in [1..3 -> UnitScores] :
               fitness_list = [fitness_type |-> type, target_value |-> Some(target),
                               rows |-> [i \in 1..3 |-> <<scores[i], i - 1>>]]
       ELSE IF pc \in {"pool", "breed"}
       THEN \E type \in {MAX, MIN}, scores \in [1..Len(UnitGenes) -> {0, 1}] :
               fitness_list = [fitness_type |-> type, target_value |-> Some(0),
                               rows |-> [i \in 1..Len(UnitGenes) |-> <<scores[i], i - 1>>]]
       ELSE fitness_list = [fitness_type |-> CENTER, target_value |-> Some(0),
                            rows |-> <<>>]
    /\ history = <<>>
    /\ generation = 0
    /\ stopping_criteria = [max_generations |-> None, fitness_landscape |-> None]
    /\ breeding \in IF pc = "pool" THEN UnitBreeding
                    ELSE IF pc = "breed" THEN UnitReplacing ELSE {DefaultBreeding}
    /\ maintain_history = TRUE
    /\ cur = 1
    /\ ev = Idle
    /\ heap = Heap0
    /\ result = None
    /\ obs = [Obs0 EXCEPT !.at_reset =
                 IF pc = "codon"
                 THEN [i \in 1..Len(population) |-> population[i].decimal_gene]
                 ELSE <<>>]

\* what a call leaves in `result`
Called(op, err, value) ==
    /\ obs.calls < MaxOps
    /\ obs' = [obs EXCEPT !.calls = @ + 1]
    /\ result' = Some([op |-> op, err |-> err, value |-> value])
    /\ UNCHANGED <<history, generation, config_vars, pc, cur, ev>>

\* population[i].set_binary_gene(binary_gene)
UnitSetBinaryGene(i, binary_gene) ==
    /\ pc = "gene"
    /\ population' = [population EXCEPT ![i] = set_binary_gene(@, binary_gene)]
    /\ Called("set_binary_gene", "", {i})
    /\ UNCHANGED fitness_list

UnitMutated(i, m) ==
    /\ population' = [population EXCEPT ![i] = m.g]
    /\ Called("mutate", m.err, {i})

\* population[i].mutate(mutation_rate, mutation_type)
UnitMutate(i, mutation_type, flips) ==
    /\ pc = "gene"
    /\ UnitMutated(i, mutate(population[i], DEFAULT_MUTATION_RATE, mutation_type, flips))
    /\ UNCHANGED fitness_list

\* the children take the place of the parents; value: the binary lengths of
\* the genotypes the two children were copied from
UnitCrossed(c, own) ==
    /\ population' = IF c.err = "" THEN c.children ELSE population
    /\ Called("crossover", c.err, own)

\* child1, child2 = _crossover(population[0], population[1])
UnitCrossover(draw) ==
    /\ pc = "gene"
    /\ UnitCrossed(_crossover(population[1], population[2], draw, Len(population)),
                   IF draw[1]
                   THEN <<Len(population[1].binary_gene), Len(population[2].binary_gene)>>
                   ELSE <<Len(population[2].binary_gene), Len(population[1].binary_gene)>>)
    /\ UNCHANGED fitness_list

UnitMapped(i, program, r) ==
    /\ population' = [population EXCEPT ![i] = r.g]
    /\ Called("_map_variables", r.err, [i |-> i, program |-> program, out |-> r.program])

\* population[i]._map_variables(program, True)
UnitMapVariables(i, program) ==
    /\ pc = "map"
    /\ UnitMapped(i, program, _map_variables(population[i], program, TRUE, 0))
    /\ UNCHANGED fitness_list

\* fitness_pool = self._evaluate_fitness(); value: how many members it drew
UnitEvaluateFitness(best_first) ==
    /\ pc = "pool"
    /\ Called("_evaluate_fitness", "",
              [pool |-> Len(_evaluate_fitness(population, breeding, best_first))])
    /\ UNCHANGED <<population, fitness_list>>

\* value: the pool _perform_replacements was handed and the ranking the
\* replacement strategies chose from
UnitBred(e, fitness_pool, worst_first) ==
    /\ population' = SlotIds(e.pop)
    /\ Called("_perform_endcycle", e.err,
              [pool |-> fitness_pool, worst_first |-> worst_first])

\* self._perform_endcycle(); flip: what mutate draws for every genotype of the
\* pool
UnitPerformEndcycle(best_first, worst_first, draws, flip) ==
    /\ pc = "breed"
    /\ UnitBred(_perform_endcycle(population, breeding, best_first, worst_first, draws,
                                  [k \in 1..MutatedSize(
                                              PoolSize(population, breeding, best_first),
                                              breeding.children_per_crossover) |-> flip],
                                  generation),
                PoolOf(best_first, draws,
                       [k \in 1..MutatedSize(PoolSize(population, breeding, best_first),
                                             breeding.children_per_crossover) |-> flip]).pool,
                worst_first)
    /\ UNCHANGED fitness_list

UnitExchanged(a, b, crosspoint, children) ==
    Called("_crossover_function", "",
           [a |-> a, b |-> b, crosspoint |-> crosspoint, children |-> children,
            again |-> _crossover_function(children[1], children[2], crosspoint)])

\* _crossover_function(a, b, crosspoint), and once more on what it returned
UnitCrossoverFunction(a, b, crosspoint) ==
    /\ pc = "cross"
    /\ UnitExchanged(a, b, crosspoint, _crossover_function(a, b, crosspoint))
    /\ UNCHANGED <<population, fitness_list>>

UnitDrawn(i, c) ==
    /\ population' = [population EXCEPT ![i] = c.g]
    /\ Called("_get_codon", c.err, [i |-> i, codon |-> c.codon])

\* population[i]._get_codon()
UnitGetCodon(i) ==
    /\ pc \in {"gene", "codon"}
    /\ UnitDrawn(i, get_codon(population[i]))
    /\ UNCHANGED fitness_list

\* population[i]._reset_gene_position(); at_reset notes the gene it starts on
UnitResetGenePosition(i) ==
    /\ pc = "codon"
    /\ population' = [population EXCEPT ![i] = _reset_gene_position(@)]
    /\ obs' = [obs EXCEPT !.at_reset[i] = population[i].decimal_gene]
    /\ result' = Some([op |-> "_reset_gene_position", err |-> "", value |-> [i |-> i]])
    /\ UNCHANGED <<fitness_list, history, generation, config_vars, pc, cur, ev>>

UnitFormatted(value, return_type, f) ==
    Called("_fmt_resolved_vars", f.err,
           [value |-> value, return_type |-> return_type, out |-> f.value])

\* _fmt_resolved_vars(value, return_type)
UnitFmt(value, return_type) ==
    /\ pc = "fmt"
    /\ UnitFormatted(value, return_type, _fmt_resolved_vars(value, return_type))
    /\ UNCHANGED <<population, fitness_list>>

UnitParsed(text, b) ==
    Called("set_bnf", b.err, [text |-> text, bnf |-> b.bnf])

\* set_bnf of two lines
UnitSetBnf(first, second) ==
    /\ pc = "bnf"
    /\ UnitParsed(first \o NEWLINE \o second, set_bnf(first \o NEWLINE \o second))
    /\ UNCHANGED <<population, fitness_list>>

\* the engine's _population_size, 0 before the first call
UnitPopulationSize == IF result = None THEN 0 ELSE result[1].value

UnitSized(e) ==
    /\ fitness_list' = e.fitness_list
    /\ Called("set_population_size", e.err, e.population_size)

\* set_population_size(size)
UnitSetPopulationSize(size) ==
    /\ pc = "size"
    /\ UnitSized(set_population_size([population_size |-> UnitPopulationSize,
                                      fitness_list |-> fitness_list], size))
    /\ UNCHANGED population

\* fitness_list.best_member(), fitness_list.worst_member()
UnitBestWorst(best, worst) ==
    /\ pc = "fitl"
    /\ Called("best_member", "", <<best, worst>>)
    /\ UNCHANGED <<population, fitness_list>>

NextUnit ==
    \/ \E i \in 1..Len(UnitGenes), binary_gene \in UnitBinaries :
          UnitSetBinaryGene(i, binary_gene)
    \/ \E i \in 1..Len(UnitGenes), mutation_type \in {MUT_TYPE_S, MUT_TYPE_M},
          flips \in UnitFlips : UnitMutate(i, mutation_type, flips)
    \/ \E draw \in CrossDraws : UnitCrossover(draw)
    \/ \E i \in 1..Len(UnitGenes), program \in UnitPrograms : UnitMapVariables(i, program)
    \/ \E best_first \in BestFirst(fitness_list) : UnitEvaluateFitness(best_first)
    \/ \E best_first \in BestFirst(fitness_list),
          worst_first \in WorstFirst(fitness_list) :
          \E draws \in [1..(PoolSize(population, breeding, best_first) \div 2)
                           -> CrossDraws],
             flip \in MutationDraws :
             UnitPerformEndcycle(best_first, worst_first, draws, flip)
    \/ \E a \in UnitBinaries, b \in UnitBinaries :
          \E crosspoint \in 2..(Min2(Len(a), Len(b)) - 2) :
             UnitCrossoverFunction(a, b, crosspoint)
    \/ \E i \in 1..Len(UnitGenes) : UnitGetCodon(i)
    \/ \E i \in 1..Len(UnitGenes) : UnitResetGenePosition(i)
    \/ \E value \in UnitValues, return_type \in UnitReturnTypes :
          UnitFmt(value, return_type)
    \/ \E a, b \in 1..Len(UnitLines) : UnitSetBnf(UnitLines[a], UnitLines[b])
    \/ \E size \in -1..3 : UnitSetPopulationSize(size)
    \/ \E best \in BestMembers(fitness_list), worst \in WorstMembers(fitness_list) :
          UnitBestWorst(best, worst)

SpecUnit == InitUnit /\ [][NextUnit]_vars

(***************************************************************************)
(* Engines configured next to each other in one process: GrammaticalEvolution() *)
(* and the setters, called with arguments they take and arguments they     *)
(* reject.  `result` holds Some([op, err, value]) of the last call, value.k *)
(* being the engine called.                                                *)
(***************************************************************************)
MaxEngines == 2

ConfTimeouts == { PyInt(5), PyInt(-1) }
ConfRates == { PyFloat(50), PyInt(-1) }
ConfChildren == { PyInt(1), PyInt(5) }
ConfStartLengths == { PyInt(2), PyInt(-1) }
ConfMaxLengths == { None, Some(PyInt(1)) }
ConfSizes == { 1, -1 }

InitConf ==
    /\ population = <<>>
    /\ fitness_list = [fitness_type |-> CENTER, target_value |-> Some(0), rows |-> <<>>]
    /\ history = <<>>
    /\ generation = 0
    /\ stopping_criteria = [max_generations |-> None, fitness_landscape |-> None]
    /\ breeding = DefaultBreeding
    /\ maintain_history = TRUE
    /\ pc = "conf"
    /\ cur = 1
    /\ ev = Idle
    /\ heap = Heap0
    /\ result = None
    /\ obs = Obs0

ConfCalled(op, err, k) ==
    /\ obs.calls < MaxOps
    /\ obs' = [obs EXCEPT !.calls = @ + 1]
    /\ result' = Some([op |-> op, err |-> err, value |-> [k |-> k]])
    /\ UNCHANGED <<population, fitness_list, history, generation, stopping_criteria,
                   breeding, maintain_history, pc, cur, ev>>

\* GrammaticalEvolution()
ConfNewEngine ==
    /\ Len(heap.engines) < MaxEngines
    /\ heap' = [heap EXCEPT !.engines = Append(@, GrammaticalEvolution)]
    /\ ConfCalled("__init__", "", Len(heap.engines) + 1)

\* engine k .set_timeouts(preprogram, program)
ConfTimeoutsSet(k, r) ==
    /\ heap' = [heap EXCEPT !.lists[heap.engines[k].timeouts] = r.list]
    /\ ConfCalled("set_timeouts", r.err, k)

ConfSetTimeouts(k, preprogram, program) ==
    ConfTimeoutsSet(k, set_timeouts(get_timeouts(heap, k), preprogram, program))

\* a setter that writes the engine's own attributes
ConfSet(k, op, r) ==
    /\ heap' = [heap EXCEPT !.engines[k] = r.e]
    /\ ConfCalled(op, r.err, k)

ConfSetGenotypeLength(k, start_gene_length, max_gene_length) ==
    ConfSet(k, "set_genotype_length",
            set_genotype_length(heap.engines[k], start_gene_length, max_gene_length))

ConfSetMutationRate(k, mutation_rate) ==
    ConfSet(k, "set_mutation_rate", set_mutation_rate(heap.engines[k], mutation_rate))

ConfSetCrossoverRate(k, crossover_rate) ==
    ConfSet(k, "set_crossover_rate", set_crossover_rate(heap.engines[k], crossover_rate))

ConfSetMaxFitnessRate(k, max_fitness_rate) ==
    ConfSet(k, "set_max_fitness_rate",
            set_max_fitness_rate(heap.engines[k], max_fitness_rate))

ConfSetChildrenPerCrossover(k, children_per_crossover) ==
    ConfSet(k, "set_children_per_crossover",
            set_children_per_crossover(heap.engines[k], children_per_crossover))

ConfSized(e, r) ==
    [e |-> [e EXCEPT !.population_size = r.population_size,
                     !.fitness_list = r.fitness_list],
     err |-> r.err]

ConfSetPopulationSize(k, size) ==
    ConfSet(k, "set_population_size",
            ConfSized(heap.engines[k], set_population_size(heap.engines[k], size)))

NextConf ==
    \/ ConfNewEngine
    \/ \E k \in 1..Len(heap.engines), preprogram \in ConfTimeouts, program \in ConfTimeouts :
          ConfSetTimeouts(k, preprogram, program)
    \/ \E k \in 1..Len(heap.engines), start \in ConfStartLengths, max \in ConfMaxLengths :
          ConfSetGenotypeLength(k, start, max)
    \/ \E k \in 1..Len(heap.engines), rate \in ConfRates : ConfSetMutationRate(k, rate)
    \/ \E k \in 1..Len(heap.engines), rate \in ConfRates : ConfSetCrossoverRate(k, rate)
    \/ \E k \in 1..Len(heap.engines), rate \in ConfRates : ConfSetMaxFitnessRate(k, rate)
    \/ \E k \in 1..Len(heap.engines), children \in ConfChildren :
          ConfSetChildrenPerCrossover(k, children)
    \/ \E k \in 1..Len(heap.engines), size \in ConfSizes : ConfSetPopulationSize(k, size)

SpecConf == InitConf /\ [][NextConf]_vars

(***************************************************************************)
(* Properties                                                              *)
(***************************************************************************)
\* C1: every run() reaches Done after finitely many generations, whatever the
\* members' scores are.  A run that reaches Done whatever happens cannot start
\* a generation with the population and the scoreboard an earlier generation
\* started with when nothing else is consulted (max generations unset): from
\* there the same steps can be taken again, without end.
C1_RunReachesDone == ~obs.repeated

\* C2: compute_fitness returns a score without raising whatever the program
\* does or reports, so no member's failure aborts the generation or the run.
C2_NoFailureAbortsRun == ev.gpc # "raised" /\ pc # "aborted"

\* the program of this compute_fitness call ended in an error: it raised, or
\* a runtime_resolve call it made raised (timeout, over-long text, a value that
\* cannot be converted)
ExecutionFailed == obs.progfailed \/ obs.hookfailed

\* C3: when executing the mapped program ends in an error, the fitness that
\* compute_fitness records and returns is the fail-fitness value, whatever the
\* program did before.
C3_ErrorGivesFailFitness ==
    (ev.gpc = "returned" /\ ExecutionFailed) => G.fitness = G.fitness_fail

\* C4: a genotype whose mapped text exceeds max_program_length at the end of
\* a substitution pass gets the fail-fitness value, compute_fitness does not
\* raise, and the over-long text is not executed.
C4_OverlongGetsFailFitness ==
    obs.overlong =>
        /\ ev.gpc = "returned"
        /\ G.fitness = G.fitness_fail
        /\ ~obs.executed

C4_Witness ==
    /\ obs.overlong
    /\ obs.pass.toolong
    /\ ev.gpc = "returned"
    /\ G.fitness = G.fitness_fail

\* the deadline the phase of a pass is to be held to
OwnDeadline(g, phase) ==
    IF phase = "build" THEN g.timeouts[TIMEOUT_PROG_BUILD + 1]
    ELSE g.timeouts[TIMEOUT_PROG_EXECUTE + 1]

\* C5: a pass of the build-phase mapping fails on time exactly when the
\* elapsed time exceeds the build-phase timeout, and a pass of a runtime_resolve
\* call exactly when it exceeds the execute-phase timeout.
C5_DeadlinesOwnPhase ==
    obs.pass.checked =>
        (obs.pass.timedout <=> obs.pass.elapsed > OwnDeadline(G, obs.pass.phase))

\* C6: with extend set, the decimal gene never grows beyond the max gene
\* length, however many codons are drawn.
C6_ExtendBounded ==
    G.extend_genotype => Len(G.decimal_gene) <= G.max_gene_length

\* the comparison of the best value with the target, by mode, with the
\* distance to the target under center
ComparisonMet(fl, best_value) ==
    IF fl.fitness_type = MAX THEN best_value >= fl.target_value[1]
    ELSE IF fl.fitness_type = MIN THEN best_value <= fl.target_value[1]
    ELSE Distance(fl, best_value) <= fl.target_value[1]

\* run() has just decided to stop or to go on
JustChecked == pc \in {"breed", "done"}

\* C7: with a target value configured, and neither max generations nor a
\* stopping function deciding, the run stops if and only if the best value
\* meets the comparison of the mode (distance to target <= target under center).
C7_TargetStopIffComparison ==
    ( /\ JustChecked
      /\ fitness_list.target_value # None
      /\ ~MaxGenReached(stopping_criteria, generation)
      /\ stopping_criteria.fitness_landscape = None )
    => ((pc = "done") <=> ComparisonMet(fitness_list, obs.best_value))

\* C8 as stated: when the stopping function is called and returns true the run
\* stops at that generation, when it returns false the run goes on to breeding.
C8_TrueAnswerStops ==
    (JustChecked /\ obs.asked) =>
        /\ obs.answer => pc = "done"
        /\ ~obs.answer => pc = "breed"

\* C8 amended: when neither max generations nor the target value stops the
\* run, the stopping function is called, and the run goes on to breeding when
\* it returns true and stops (Done, no further breeding) when it returns false.
C8_TrueAnswerContinues ==
    /\ (JustChecked /\ obs.asked) => (pc = "breed" <=> obs.answer)
    /\ ( /\ JustChecked
         /\ stopping_criteria.fitness_landscape # None
         /\ ~MaxGenReached(stopping_criteria, generation)
         /\ ~TargetReached(fitness_list, obs.best_value) ) => obs.asked

C8_Witness ==
    /\ pc = "done"
    /\ obs.asked
    /\ ~obs.answer
    /\ obs.stop = "landscape"

\* run() is under way or has returned
Started == pc \in {"eval", "record", "check", "breed", "done"}

\* C9: with max generations G and no other stop condition firing, a run started
\* at g0 <= G ends with the generation counter at G after G - g0 + 1 evaluations
\* and G - g0 breedings, the two alternating and the counter rising with each
\* breeding, and with G - g0 + 1 snapshots in the history if it is kept; fitness
\* is evaluated once even when g0 >= G.
C9_MaxGenerationsCounts ==
    (Started /\ stopping_criteria.max_generations # None) =>
        /\ obs.evals = IF pc = "eval" THEN obs.breeds ELSE obs.breeds + 1
        /\ generation = obs.start + obs.breeds
        /\ maintain_history =>
              Len(history) = IF pc \in {"eval", "record"} THEN obs.breeds
                             ELSE obs.breeds + 1
        /\ (pc = "done" /\ obs.stop = "maxgen") =>
              /\ obs.evals >= 1
              /\ IF obs.start <= stopping_criteria.max_generations[1]
                 THEN /\ generation = stopping_criteria.max_generations[1]
                      /\ obs.evals = stopping_criteria.max_generations[1] - obs.start + 1
                      /\ obs.breeds = stopping_criteria.max_generations[1] - obs.start
                 ELSE /\ obs.evals = 1
                      /\ obs.breeds = 0

C9_Witness ==
    /\ pc = "done"
    /\ obs.stop = "maxgen"
    /\ maintain_history
    /\ obs.start < stopping_criteria.max_generations[1]
    /\ obs.breeds >= 1
    /\ Len(history) = obs.breeds + 1

\* C10: run() returns the member index of a best member of the final
\* FitnessList; at that moment row i holds the fitness of the genotype in
\* population slot i, and under minimize no score is lower than the returned
\* member's.
C10_ReturnsBestMember ==
    pc = "done" =>
        /\ result # None
        /\ result[1] \in BestMembers(fitness_list)
        /\ \A i \in 1..Len(population) :
              /\ population[i].member_no = i - 1
              /\ fitness_list.rows[i] = <<population[i].fitness, i - 1>>
        /\ fitness_list.fitness_type = MIN =>
              \A n \in Members(fitness_list) :
                  ScoreOf(fitness_list, n) >= ScoreOf(fitness_list, result[1])

C10_Witness ==
    /\ pc = "done"
    /\ result # None
    /\ obs.breeds >= 1
    /\ ScoreOf(fitness_list, 0) # ScoreOf(fitness_list, 1)
    /\ BestMembers(fitness_list) = {result[1]}

\* every slot holds the genotype of its own member number
SlotsKept ==
    /\ Len(population) = Len(EngineGenes)
    /\ Len(fitness_list.rows) = Len(population)
    /\ \A i \in 1..Len(population) :
          /\ population[i].member_no = i - 1
          /\ population[i].local_bnf[KEY_MEMBER_NO] = BnfList(<<StrInt(i - 1)>>)
          /\ fitness_list.rows[i][2] = i - 1

\* breeding leaves a slot as it was, or writes into it a genotype that takes
\* the slot's member number and the stamp of the generation to come
ReplacedStamped ==
    pc = "breed" =>
        \A i \in 1..Len(population) :
            \/ population'[i] = population[i]
            \/ /\ population'[i].generation = generation + 1
               /\ population'[i].member_no = population[i].member_no

\* C11: through any number of generations the population keeps its slots, the
\* genotype in slot i has member_no i, '<member_no>' [i] in its grammar and
\* row i of the FitnessList carries member index i; a genotype written into a
\* slot by replacement takes the slot's member index and is stamped with the
\* current generation + 1.
C11_SlotIdentity == []SlotsKept /\ [][ReplacedStamped]_vars

\* a generation starts after a breeding that replaced a member
C11_Witness ==
    /\ pc = "eval" /\ cur = 1 /\ ev.gpc = "idle"
    /\ obs.breeds >= 1
    /\ \E i \in 1..Len(population) :
          /\ population[i].generation = generation
          /\ population[i].member_no = i - 1
          /\ population[i].binary_gene # dec2bin_gene(EngineGenes[i]).s

\* C12: with history kept, the evaluation of a generation appends one snapshot
\* of the FitnessList to the end of the history and no other step of run()
\* changes the history, so snapshot k stays what it was whatever is written to
\* the live list later; with history off run() never changes the history.
C12_HistoryAppendOnly ==
    [][ IF maintain_history /\ pc = "record"
        THEN history' = Append(history, fitness_list)
        ELSE history' = history ]_vars

\* two snapshots, the live list having changed after the first was taken
C12_Witness ==
    /\ maintain_history
    /\ Len(history) = 2
    /\ history[1] # history[2]
    /\ history[2] = fitness_list

\* no genotype's local_bnf is the engine's bnf or another genotype's
GrammarsApart ==
    \A i \in 1..Len(population) :
        /\ population[i].bnf_id # BNF_ENGINE
        /\ \A j \in 1..Len(population) :
              i # j => population[i].bnf_id # population[j].bnf_id

\* while member `cur` is evaluated no other member's grammar changes
OthersUntouched ==
    pc = "eval" =>
        \A i \in 1..Len(population) :
            i # cur => population'[i].local_bnf = population[i].local_bnf

Returned(op) ==
    /\ result # None
    /\ result[1].op = op
    /\ result[1].err = ""

LengthsAgree(g) ==
    /\ Len(g.binary_gene) % BITS = 0
    /\ Len(g.decimal_gene) = Len(g.binary_gene) \div BITS

\* C14: after mutate, crossover or set_binary_gene has returned, the decimal
\* gene of the genotype has (binary gene length / 8) codons and the binary gene
\* length is a multiple of 8.
C14_GeneLengthsAgree ==
    /\ (Returned("set_binary_gene") \/ Returned("mutate")) =>
          \A i \in result[1].value : LengthsAgree(population[i])
    /\ Returned("crossover") =>
          \A i \in 1..Len(population) : LengthsAgree(population[i])

C16_ChildKeepsParentLength ==
    Returned("crossover") =>
        \A k \in 1..Len(population) :
            Len(population[k].binary_gene) = result[1].value[k]

\* C17: the coercion to bool returns true for 'True' only, false for 'False'
\* only, and raises the invalid-boolean error for every other value.
C17_BoolOnlyLiterals ==
    ( /\ result # None
      /\ result[1].op = "_fmt_resolved_vars"
      /\ result[1].value.return_type = "bool" ) =>
        IF result[1].value.value = TRUE_TEXT
        THEN result[1].err = "" /\ result[1].value.out = PyBool(TRUE)
        ELSE IF result[1].value.value = FALSE_TEXT
        THEN result[1].err = "" /\ result[1].value.out = PyBool(FALSE)
        ELSE result[1].err = "ValueError"

\* C18: set_bnf gives a token that is not a statement the trimmed pieces
\* between its '|', none of them blank, and gives a statement token one
\* alternative.
C18_SetBnfAlternatives ==
    Returned("set_bnf") =>
        \A key \in DOMAIN result[1].value.bnf :
            IF StartsWith(key, STATEMENT_FORMAT)
            THEN Len(result[1].value.bnf[key]) = 1
            ELSE \A k \in 1..Len(result[1].value.bnf[key]) :
                    /\ result[1].value.bnf[key][k] # <<>>
                    /\ result[1].value.bnf[key][k] = Strip(result[1].value.bnf[key][k])

\* C19: after any sequence of set_population_size calls the FitnessList has
\* as many rows as the population size, row i carrying member index i; a call
\* with size <= 0 raises ValueError and changes neither.
C19_RowsMatchPopulationSize ==
    /\ [](pc = "size" =>
            /\ Len(fitness_list.rows) = UnitPopulationSize
            /\ \A i \in 1..Len(fitness_list.rows) : fitness_list.rows[i][2] = i - 1)
    /\ [][ (pc = "size" /\ result'[1].err # "") =>
              /\ result'[1].err = "ValueError"
              /\ result'[1].value = UnitPopulationSize
              /\ fitness_list' = fitness_list ]_vars

\* C20: best_member and worst_member follow the mode: highest/lowest score
\* under maximize, lowest/highest under minimize, smallest/largest distance
\* |score - T| under center.
C20_BestWorstFollowMode ==
    Returned("best_member") =>
        \A n \in Members(fitness_list) :
            IF fitness_list.fitness_type = MAX
            THEN /\ ScoreOf(fitness_list, n) <= ScoreOf(fitness_list, result[1].value[1])
                 /\ ScoreOf(fitness_list, n) >= ScoreOf(fitness_list, result[1].value[2])
            ELSE IF fitness_list.fitness_type = MIN
            THEN /\ ScoreOf(fitness_list, n) >= ScoreOf(fitness_list, result[1].value[1])
                 /\ ScoreOf(fitness_list, n) <= ScoreOf(fitness_list, result[1].value[2])
            ELSE /\ Abs(ScoreOf(fitness_list, n) - fitness_list.target_value[1])
                       >= Abs(ScoreOf(fitness_list, result[1].value[1])
                              - fitness_list.target_value[1])
                 /\ Abs(ScoreOf(fitness_list, n) - fitness_list.target_value[1])
                       <= Abs(ScoreOf(fitness_list, result[1].value[2])
                              - fitness_list.target_value[1])

\* under center the best member has neither the lowest nor the highest score
C20_Witness ==
    /\ Returned("best_member")
    /\ fitness_list.fitness_type = CENTER
    /\ \E n \in Members(fitness_list) :
          ScoreOf(fitness_list, n) < ScoreOf(fitness_list, result[1].value[1])
    /\ \E n \in Members(fitness_list) :
          ScoreOf(fitness_list, n) > ScoreOf(fitness_list, result[1].value[1])

\* a direct call of `op` is the step being taken
Calling(op) ==
    /\ obs'.calls = obs.calls + 1
    /\ result'[1].op = op

\* population[i]._get_codon() without wrap, g before the call and g1 after it
NoWrapDraw(g, g1, r) ==
    /\ (r.err # "") <=> (g.position[2] = g.max_gene_length)
    /\ r.err # "" => (r.err = "ValueError" /\ g1 = g)
    /\ r.err = "" =>
          /\ r.value.codon = g.decimal_gene[g.position[1] + 1]
          /\ g1.position = <<g.position[1] + 1, g.position[2] + 1>>

\* C21: with wrap off a call of get_codon fails, with the genotype-exhausted
\* error, if and only if sequence_no has reached the max gene length, leaving
\* gene and cursor as they were; every other call returns the codon at the
\* cursor and advances position and sequence_no by one.
C21_NoWrapFailsOnlyAtMax ==
    [][ (pc = "gene" /\ Calling("_get_codon")
            /\ ~population[result'[1].value.i].wrap) =>
          NoWrapDraw(population[result'[1].value.i],
                     population'[result'[1].value.i], result'[1]) ]_vars

\* population[i]._get_codon() with wrap, g before the call and g1 after it,
\* original the decimal gene at the last reset of the cursor
WrapDraw(g, g1, r, original) ==
    /\ r.err = ""
    /\ r.value.codon = original[(g.position[2] % Len(original)) + 1]
    /\ g1.position[2] = g.position[2] + 1
    /\ ~g.extend_genotype => g1.decimal_gene = g.decimal_gene

C24_CrossoverExchangesTails ==
    Returned("_crossover_function") =>
        /\ result[1].value.crosspoint >= 2
        /\ result[1].value.crosspoint
              <= Min2(Len(result[1].value.a), Len(result[1].value.b)) - 2
        /\ result[1].value.children[1] =
              SubSeq(result[1].value.a, 1, result[1].value.crosspoint)
                 \o SubSeq(result[1].value.b, result[1].value.crosspoint + 1,
                           Len(result[1].value.b))
        /\ result[1].value.children[2] =
              SubSeq(result[1].value.b, 1, result[1].value.crosspoint)
                 \o SubSeq(result[1].value.a, result[1].value.crosspoint + 1,
                           Len(result[1].value.a))
        /\ result[1].value.again = <<result[1].value.a, result[1].value.b>>

\* parents of different lengths, the children differing from both
C24_Witness ==
    /\ Returned("_crossover_function")
    /\ Len(result[1].value.a) # Len(result[1].value.b)
    /\ result[1].value.children[1] \notin {result[1].value.a, result[1].value.b}
    /\ result[1].value.again = <<result[1].value.a, result[1].value.b>>

\* ceil(rate * n) for a rate given in percent
CeilRate(rate, n) == (rate * n + 99) \div 100

\* C23: for any number and order of fitness-selection strategies the members
\* drawn into the pool are never more than ceil(max_fitness_rate *
\* population_size): drawing stops for good once that count is reached.
C23_PoolWithinMaxFitnessRate ==
    Returned("_evaluate_fitness") =>
        result[1].value.pool <= CeilRate(breeding.max_fitness_rate, Len(population))

(***************************************************************************)
(* What the mapping is to return, stated over the occurrences of           *)
(* nonterminals in the text: parts is text, occurrence, name, text, ...    *)
(***************************************************************************)
\* text.endswith(suffix)
EndsWith(text, suffix) ==
    /\ Len(text) >= Len(suffix)
    /\ SubSeq(text, Len(text) - Len(suffix) + 1, Len(text)) = suffix

\* the text without the opening of a call at its end: ( ' "
RECURSIVE BeforeCall(_)
BeforeCall(text) ==
    IF Len(text) > 0 /\ text[Len(text)] \in {"(", "'", "\""}
    THEN BeforeCall(SubSeq(text, 1, Len(text) - 1)) ELSE text

\* the occurrence that follows text is immediately preceded by a hook name
ImmediatelyPreceded(text) == \E stopitem \in STOPLIST : EndsWith(BeforeCall(text), stopitem)

\* codon n + 1 drawn since the reset of a wrapping gene that does not grow
RefCodon(gene, n) == gene[(n % Len(gene)) + 1]

RefAlternative(entry, codon) == entry.items[(codon % Len(entry.items)) + 1]

\* the text between two occurrences as it goes to the output
RefKept(text, keep) == IF ~keep /\ IsBlank(text) THEN <<>> ELSE text

\* One pass over the occurrences from the k-th on. strict: an occurrence is
\* protected when a hook name immediately precedes it, else when the text
\* before it holds a hook name anywhere; keep: blank text between occurrences
\* stays. st: out the text so far, n the codons drawn, subs the substitutions
\* of this pass.
RECURSIVE RefPass(_, _, _, _, _, _, _)
RefPass(parts, k, bnf, gene, st, strict, keep) ==
    IF st.err # "" THEN st
    ELSE IF 3 * k - 1 > Len(parts)
    THEN [st EXCEPT !.out = @ \o RefKept(parts[Len(parts)], keep)]
    ELSE IF (IF strict THEN ImmediatelyPreceded(parts[3 * k - 2])
                       ELSE on_stoplist(parts[3 * k - 2]))
    THEN RefPass(parts, k + 1, bnf, gene,
                 [st EXCEPT !.out = @ \o RefKept(parts[3 * k - 2], keep)
                                      \o parts[3 * k - 1]],
                 strict, keep)
    ELSE IF parts[3 * k - 1] \notin DOMAIN bnf
    THEN [st EXCEPT !.err = "KeyError"]
    ELSE RefPass(parts, k + 1, bnf, gene,
                 [st EXCEPT !.out = @ \o RefKept(parts[3 * k - 2], keep)
                                      \o RefAlternative(bnf[parts[3 * k - 1]],
                                                        RefCodon(gene, st.n)),
                            !.n = @ + 1, !.subs = @ + 1],
                 strict, keep)

\* passes until one substitutes nothing; .out the text, .n the codons drawn
RECURSIVE RefLoop(_, _, _, _, _)
RefLoop(p, bnf, gene, strict, keep) ==
    IF p.err # "" \/ p.subs = 0 THEN p
    ELSE RefLoop(RefPass(VARIABLE_FORMAT_split(p.out), 1, bnf, gene,
                         [out |-> <<>>, n |-> p.n, subs |-> 0, err |-> ""],
                         strict, keep),
                 bnf, gene, strict, keep)

RefMap(text, g, strict, keep) ==
    RefLoop([out |-> text, n |-> g.position[2], subs |-> 1, err |-> ""],
            g.local_bnf, g.decimal_gene, strict, keep)

\* the occurrences of text that no hook name immediately precedes
Unprotected(parts) ==
    { k \in 1..((Len(parts) - 1) \div 3) : ~ImmediatelyPreceded(parts[3 * k - 2]) }

\* _map_variables, called on population[i], has returned
Mapped == pc = "map" /\ Calling("_map_variables") /\ result'[1].err = ""

\* C25: in the build phase a nonterminal occurrence is left as it is if and
\* only if one of the two hook names immediately precedes it; every other
\* occurrence is substituted.
C25_LiteralIffHookPrecedes ==
    [][ Mapped =>
          result'[1].value.out =
             RefMap(result'[1].value.program, population[result'[1].value.i],
                    TRUE, FALSE).out ]_vars

\* the mapping draws one codon per substitution, the occurrences of a pass from
\* left to right, each replaced by alternatives[codon mod len(alternatives)],
\* pass after pass until one substitutes nothing
MapDrawsInOrder ==
    [][ Mapped =>
          /\ result'[1].value.out =
                RefMap(result'[1].value.program, population[result'[1].value.i],
                       FALSE, FALSE).out
          /\ population'[result'[1].value.i].position[2] =
                RefMap(result'[1].value.program, population[result'[1].value.i],
                       FALSE, FALSE).n ]_vars

\* C26: the mapping draws one codon per substituted occurrence, from left to
\* right within a pass, and puts alternatives[codon mod len(alternatives)] in
\* its place; passes repeat until one substitutes nothing, so that the text
\* returned holds no nonterminal but the ones a hook name protects.
C26_MappingLeavesOnlyProtected ==
    [][ Mapped =>
          /\ population'[result'[1].value.i].position[2] =
                RefMap(result'[1].value.program, population[result'[1].value.i],
                       FALSE, FALSE).n
          /\ Unprotected(VARIABLE_FORMAT_split(result'[1].value.out)) = {} ]_vars

\* C30: the mapping changes the text at the substituted occurrences only: the
\* text returned is the input with every substituted occurrence replaced by
\* its alternative, every other character kept in its place, the whitespace
\* and the newlines between two nonterminals included.
C30_OnlyOccurrencesChange ==
    [][ Mapped =>
          result'[1].value.out =
             RefMap(result'[1].value.program, population[result'[1].value.i],
                    FALSE, TRUE).out ]_vars

(***************************************************************************)
(* What breeding may change                                                *)
(***************************************************************************)
\* the slots the replacement strategies choose, in the order they choose them
RECURSIVE Chosen(_, _)
Chosen(rsels, worst_first) ==
    IF rsels = <<>> THEN <<>>
    ELSE ReplacementDeleteWorst_select(Head(rsels), worst_first)
             \o Chosen(Tail(rsels), worst_first)

\* a pool entry as the slot of `old` holds it: the slot's member index, the
\* stamp of the generation to come
Stored(entry, old, gen) ==
    [entry EXCEPT !.member_no = old.member_no,
                  !.generation = gen + 1,
                  !.local_bnf = [@ EXCEPT ![KEY_MEMBER_NO] =
                                    BnfList(<<StrInt(old.member_no)>>)]]

\* the same genotype, whichever object holds its grammar
SameButId(g, h) == [g EXCEPT !.bnf_id = 0] = [h EXCEPT !.bnf_id = 0]

\* the k-th chosen slot holds the k-th pool entry (the last one written to it
\* when it was chosen more than once), every other slot what it held
VictimsReceive(p, chosen) ==
    /\ Len(population') = Len(population)
    /\ IF p.err # "" THEN population' = population
       ELSE \A i \in 1..Len(population) :
               LET ks == { k \in 1..Min2(Len(chosen), Len(p.pool)) :
                              chosen[k] = i - 1 }
               IN  IF ks = {} THEN population'[i] = population[i]
                   ELSE /\ SameButId(population'[i],
                                     Stored(p.pool[CHOOSE k \in ks :
                                                      \A m \in ks : m <= k],
                                            population[i], generation))
                        /\ \A j \in 1..Len(population) :
                              j # i => population'[j].bnf_id # population'[i].bnf_id

BreedingFrame ==
    pc = "breed" /\ Calling("_perform_endcycle") =>
        /\ fitness_list' = fitness_list
        /\ VictimsReceive([pool |-> result'[1].value.pool, err |-> result'[1].err],
                          Chosen(breeding.replacement_selections,
                                 result'[1].value.worst_first))

\* C27: breeding changes only the population slots the replacement strategies
\* choose, at most as many as the pool has entries, the k-th chosen slot
\* receiving the k-th pool entry; every other slot keeps its genotype with
\* the same binary and decimal gene, the pool is made of copies, and the
\* scores of the FitnessList stay as evaluated.
C27_BreedingChangesOnlyVictims == [][BreedingFrame]_vars

\* two strategies have chosen three slots: the slot chosen third holds the
\* third pool entry, the slot chosen first and second the second one
C27_Witness ==
    /\ pc = "breed" /\ Returned("_perform_endcycle")
    /\ breeding = TwoReplacements
    /\ Len(result[1].value.pool) >= 3
    /\ \E i, j \in 1..Len(population) :
          /\ result[1].value.worst_first = <<i - 1, j - 1>>
          /\ SameButId(population[i],
                       Stored(result[1].value.pool[2], population[i], generation))
          /\ SameButId(population[j],
                       Stored(result[1].value.pool[3], population[j], generation))
          /\ population[i].binary_gene # population[j].binary_gene

(***************************************************************************)
(* What a setter may change                                                *)
(***************************************************************************)
\* what the getters of engine k return
Config(h, k) == [h.engines[k] EXCEPT !.timeouts = get_timeouts(h, k)]

TimeoutsPrivate ==
    /\ pc = "conf" /\ Calling("set_timeouts") =>
          \A j \in 1..Len(heap.engines) :
              j # result'[1].value.k => get_timeouts(heap', j) = get_timeouts(heap, j)
    /\ pc = "conf" /\ Calling("__init__") =>
          get_timeouts(heap', result'[1].value.k) = DEFAULT_TIMEOUTS

\* C28: timeouts are private to each engine: set_timeouts on one engine never
\* changes what get_timeouts of another engine returns, nor the timeouts an
\* engine created later starts with.
C28_TimeoutsPrivateToEngine == [][TimeoutsPrivate]_vars

RejectedKeepsConfiguration ==
    pc = "conf" /\ obs'.calls = obs.calls + 1 /\ result'[1].err = "ValueError" =>
        Config(heap', result'[1].value.k) = Config(heap, result'[1].value.k)

\* C29: a configuration setter that rejects its arguments with ValueError
\* (set_timeouts, set_genotype_length, set_mutation_rate, set_crossover_rate,
\* set_max_fitness_rate, set_children_per_crossover, set_population_size)
\* leaves the whole configuration of its engine as it was before the call.
C29_RejectedSetterKeepsConfiguration == [][RejectedKeepsConfiguration]_vars

====
